---- MODULE Spec2Model ----
(***************************************************************************)
(* Model of the RuiQi WAF inspection agent (coraza-spoa/internal):         *)
(*   - the IP ban registry (MemoryIPRecorder over IPExpiryHeap),           *)
(*   - the transaction correlation engine (HandleRequest, HandleResponse,  *)
(*     the TTL cache and its eviction callback),                           *)
(*   - client IP derivation (getRealClientIP / getHeaderValue),            *)
(*   - the asynchronous persisters (MongoIPRecorder's write queue and      *)
(*     batchWriteLoop, MongoLogStore's log channel and processLogs).       *)
(* Time is a natural-number clock `now` (time.Now()), advanced by Tick.    *)
(***************************************************************************)
EXTENDS Integers, Sequences, FiniteSets, TLC

\* ------------------------------------------------------------------ bounds
MaxTime == 3
MaxDur == 2
Capacity == 2
MaxLines == 2
MaxReq == 2
\* the persisters, scaled down: the inbox holds ChannelSize records (1000 in
\* the code), a batch is flushed at BatchSize records (100 in the code), and
\* at most MaxPush records are pushed
ChannelSize == 2
BatchSize == 2
MaxPush == 3

\* at most MaxLoops processLogs goroutines are started
MaxLoops == 2

\* the configured lifetime of a cache entry (AppConfig.TransactionTTL), in ticks
TransactionTTL == 1

\* Go strings and byte slices are sequences of tokens: a token is a separator
\* byte (":", ",", " ", ...) or an opaque run of other bytes ("ip1", "host").
IPs == {<<"ip1">>, <<"ip2">>, <<"ip3">>}
Reasons == {"bruteforce", "scan"}
Durations == 1..MaxDur

VARIABLES
    now,          \* wall clock, time.Now()
    blockedIPs,   \* MemoryIPRecorder.blockedIPs : ip -> BlockedIPRecord
    expiryItems,  \* MemoryIPRecorder.expiryItems: ip -> IPExpiryItem
    expiryHeap,   \* MemoryIPRecorder.expiryHeap : array of items (by ip)
    lastOp,       \* what the last registry operation did (its log line)
    granted,      \* history: ip -> the ban last recorded for it and not evicted since
    ipReq,        \* the request handed to getRealClientIP: its header lines, source
    ipResult,     \* what getRealClientIP returned for it (<<"unset">> before the call)
    cfg,          \* Application configuration: which collaborators are non-nil
    txs,          \* the transactions opened so far (the heap objects), by index
    cache,        \* Application.cache: id -> [tx, expiration]
    workers,      \* the goroutines running HandleResponse
    evictor,      \* the cache's eviction goroutine
    out,          \* the last step of a handler: its return and the calls it made
    nreq,         \* number of HandleRequest calls so far
    persister,    \* which persister runs, its channels' state, its loop's position
    inbox,        \* MongoIPRecorder.writeQueue / MongoLogStore.logChan: the buffer
    batch,        \* the batch slice of batchWriteLoop / processLogs
    written,       \* the records handed to BulkWrite / InsertMany so far
    mongo,        \* the collection the persister writes, and its last write call
    mls,          \* a MongoLogStore through Start and Close: flag, channel, loops
    mu,           \* MemoryIPRecorder.mu: who holds the write lock, who holds read locks
    tasks         \* the goroutines that use the registry: position and arguments

\* ------------------------------------------------------------ map helpers
MapPut(m, k, v) == [x \in (DOMAIN m) \cup {k} |-> IF x = k THEN v ELSE m[x]]
MapDel(m, K) == [x \in (DOMAIN m) \ K |-> m[x]]
EmptyMap == [x \in {} |-> 0]
SeqToSet(s) == {s[i] : i \in 1..Len(s)}

\* ------------------------------------------------- strings and header blocks
NL == "\n"
CR == "\r"
WhiteSpace == {" ", "\t", NL, CR}

\* the upper-case spellings used in the inputs, and their lower-case forms
ToLower(c) ==
    CASE c = "X-Forwarded-For" -> "x-forwarded-for"
      [] c = "X-Real-IP" -> "x-real-ip"
      [] c = "Forwarded" -> "forwarded"
      [] c = "Host" -> "host"
      [] c = "HOST" -> "host"
      [] OTHER -> c

\* a comparison that tells upper case from lower case
EqualExact(a, b) == a = b

\* strings.EqualFold
EqualFold(a, b) ==
    /\ Len(a) = Len(b)
    /\ \A i \in 1..Len(a) : ToLower(a[i]) = ToLower(b[i])

\* bytes.IndexByte + 1: the position of the first c in s, 0 when absent
RECURSIVE IndexFrom(_, _, _)
IndexFrom(s, c, i) ==
    IF i > Len(s) THEN 0
    ELSE IF s[i] = c THEN i
    ELSE IndexFrom(s, c, i + 1)

Index(s, c) == IndexFrom(s, c, 1)

RECURSIVE TrimLeft(_, _)
TrimLeft(s, cut) ==
    IF Len(s) > 0 /\ s[1] \in cut THEN TrimLeft(Tail(s), cut) ELSE s

RECURSIVE TrimRight(_, _)
TrimRight(s, cut) ==
    IF Len(s) > 0 /\ s[Len(s)] \in cut
    THEN TrimRight(SubSeq(s, 1, Len(s) - 1), cut)
    ELSE s

\* strings.Trim(s, cutset)
Trim(s, cut) == TrimRight(TrimLeft(s, cut), cut)

\* strings.TrimSpace, bytes.TrimSpace
TrimSpace(s) == Trim(s, WhiteSpace)

\* strings.Split(s, sep): every piece between separators
RECURSIVE Split(_, _)
Split(s, sep) ==
    LET i == Index(s, sep)
    IN IF i = 0 THEN <<s>>
       ELSE <<SubSeq(s, 1, i - 1)>> \o Split(SubSeq(s, i + 1, Len(s)), sep)

\* strings.SplitN(s, sep, 2): cut at the first separator only
SplitN2(s, sep) ==
    LET i == Index(s, sep)
    IN IF i = 0 THEN <<s>>
       ELSE <<SubSeq(s, 1, i - 1), SubSeq(s, i + 1, Len(s))>>

\* bufio.ScanLines: lines end at "\n", one trailing "\r" is dropped, a last
\* line without a newline is returned when it is not empty
DropCR(line) ==
    IF Len(line) > 0 /\ line[Len(line)] = CR
    THEN SubSeq(line, 1, Len(line) - 1)
    ELSE line

RECURSIVE ScanLines(_)
ScanLines(data) ==
    LET i == Index(data, NL)
    IN IF Len(data) = 0 THEN <<>>
       ELSE IF i = 0 THEN <<DropCR(data)>>
       ELSE <<DropCR(SubSeq(data, 1, i - 1))>> \o ScanLines(SubSeq(data, i + 1, Len(data)))

\* the scan loop of getHeaderValue over the remaining lines
RECURSIVE headerValueIn(_, _)
headerValueIn(lines, targetHeader) ==
    IF Len(lines) = 0 THEN <<>>
    ELSE LET line == TrimSpace(Head(lines))
             kv == SplitN2(line, ":")
         IN IF Len(line) = 0 \/ Len(kv) # 2
            THEN headerValueIn(Tail(lines), targetHeader)
            ELSE IF EqualFold(TrimSpace(kv[1]), targetHeader)
                 THEN TrimSpace(kv[2])
                 ELSE headerValueIn(Tail(lines), targetHeader)

getHeaderValue(headers, targetHeader) ==
    headerValueIn(ScanLines(headers), targetHeader)

\* the scanner implementation kept in the test file, and its scan loop
RECURSIVE headerValueInOld(_, _)
headerValueInOld(lines, targetHeader) ==
    IF Len(lines) = 0 THEN <<>>
    ELSE LET line == TrimSpace(Head(lines))
             kv == SplitN2(line, ":")
         IN IF Len(line) = 0
            THEN headerValueInOld(Tail(lines), targetHeader)
            ELSE IF Len(kv) # 2
            THEN headerValueInOld(Tail(lines), targetHeader)
            ELSE LET key == TrimSpace(kv[1])
                     value == TrimSpace(kv[2])
                 IN IF EqualFold(key, targetHeader) THEN value
                    ELSE headerValueInOld(Tail(lines), targetHeader)

getHeaderValueOld(headers, targetHeader) ==
    headerValueInOld(ScanLines(headers), targetHeader)

\* the scan loop of readHeaders; returns [err, pairs]
RECURSIVE readHeaderLines(_, _)
readHeaderLines(lines, pairs) ==
    IF Len(lines) = 0 THEN [err |-> FALSE, pairs |-> pairs]
    ELSE LET line == TrimSpace(Head(lines))
             kv == SplitN2(line, ":")
         IN IF Len(line) = 0
            THEN readHeaderLines(Tail(lines), pairs)
            ELSE IF Len(kv) # 2
                 THEN [err |-> TRUE, pairs |-> pairs]
                 ELSE readHeaderLines(Tail(lines),
                          Append(pairs, <<TrimSpace(kv[1]), TrimSpace(kv[2])>>))

\* a reader that passes over a line without a colon
readHeadersSkip(headers) ==
    [readHeaderLines(ScanLines(headers), <<>>) EXCEPT !.err = FALSE]

readHeaders(headers) == readHeaderLines(ScanLines(headers), <<>>)

\* ----------------------------------------------------------- getRealClientIP
SwappedHeaders ==
    << <<"x-real-ip">>, <<"x-forwarded-for">>, <<"true-client-ip">>,
       <<"cf-connecting-ip">>, <<"fastly-client-ip">>, <<"x-client-ip">>,
       <<"x-original-forwarded-for">>, <<"forwarded">>, <<"x-cluster-client-ip">> >>

PriorityHeaders ==
    << <<"x-forwarded-for">>, <<"x-real-ip">>, <<"true-client-ip">>,
       <<"cf-connecting-ip">>, <<"fastly-client-ip">>, <<"x-client-ip">>,
       <<"x-original-forwarded-for">>, <<"forwarded">>, <<"x-cluster-client-ip">> >>

\* the loop over the parts of a Forwarded header; <<>> when no part yields
RECURSIVE forwardedForQuoted(_)
forwardedForQuoted(parts) ==
    IF Len(parts) = 0 THEN <<>>
    ELSE LET kv == SplitN2(Head(parts), "=")
         IN IF Len(kv) = 2 /\ TrimSpace(kv[1]) = <<"for">>
                /\ Trim(TrimSpace(kv[2]), {"\""}) # <<>>
            THEN Trim(TrimSpace(kv[2]), {"\""})
            ELSE forwardedForQuoted(Tail(parts))

RECURSIVE forwardedFor(_)
forwardedFor(parts) ==
    IF Len(parts) = 0 THEN <<>>
    ELSE LET kv == SplitN2(Head(parts), "=")
             quoted == Trim(TrimSpace(kv[2]), {"\""})
             ip == IF Len(quoted) > 0 /\ quoted[1] = "[" /\ quoted[Len(quoted)] = "]"
                   THEN SubSeq(quoted, 2, Len(quoted) - 1)
                   ELSE quoted
         IN IF Len(kv) = 2 /\ TrimSpace(kv[1]) = <<"for">> /\ ip # <<>>
            THEN ip
            ELSE forwardedFor(Tail(parts))

\* what one header contributes: the IP it yields, <<>> when none
headerIP(header, value) ==
    IF header = <<"x-forwarded-for">> \/ header = <<"x-original-forwarded-for">>
    THEN TrimSpace(Split(value, ",")[1])
    ELSE IF header = <<"forwarded">>
    THEN forwardedFor(Split(value, ";"))
    ELSE TrimSpace(value)

\* the loop over the prioritized headers, from position i on
RECURSIVE realIPFrom(_, _, _)
realIPFrom(req, headers, i) ==
    IF i > Len(headers)
    THEN IF req.SrcIp # "invalid" THEN req.SrcIp ELSE <<>>
    ELSE LET value == getHeaderValue(req.Headers, headers[i])
             ip == IF value # <<>> THEN headerIP(headers[i], value) ELSE <<>>
         IN IF ip # <<>> THEN ip ELSE realIPFrom(req, headers, i + 1)

getRealClientIP(req) == realIPFrom(req, PriorityHeaders, 1)

\* ------------------------------------------------------------ IPExpiryHeap
\* A heap value hp is [heap |-> <<ip, ...>>, items |-> [ip |-> [expiresAt, index]]].
\* Go indexes are 0-based: position i of the Go slice is heap[i + 1].

Less(hp, i, j) ==
    hp.items[hp.heap[i + 1]].expiresAt < hp.items[hp.heap[j + 1]].expiresAt

Swap(hp, i, j) ==
    LET a == hp.heap[i + 1]
        b == hp.heap[j + 1]
        h1 == [hp.heap EXCEPT ![i + 1] = b, ![j + 1] = a]
        it1 == [hp.items EXCEPT ![h1[i + 1]].index = i]
        it2 == [it1 EXCEPT ![h1[j + 1]].index = j]
    IN [heap |-> h1, items |-> it2]

RECURSIVE heapUp(_, _)
\* a pushed element stays at the end of the slice
heapUpNever(hp, j) == hp

heapUp(hp, j) ==
    LET i == (j - 1) \div 2
    IN IF j <= 0 \/ i = j \/ ~Less(hp, j, i)
       THEN hp
       ELSE heapUp(Swap(hp, i, j), i)

\* returns [hp, i]: the heap and the final position of the element
RECURSIVE heapDown(_, _, _)
heapDown(hp, i, n) ==
    LET j1 == 2 * i + 1
    IN IF j1 >= n
       THEN [hp |-> hp, i |-> i]
       ELSE LET j2 == j1 + 1
                j == IF j2 < n /\ Less(hp, j2, j1) THEN j2 ELSE j1
            IN IF ~Less(hp, j, i)
               THEN [hp |-> hp, i |-> i]
               ELSE heapDown(Swap(hp, i, j), j, n)

\* IPExpiryHeap.Push then heap.up
heapPush(hp, ip, expiresAt) ==
    LET n == Len(hp.heap)
        pushed == [heap |-> Append(hp.heap, ip),
                   items |-> MapPut(hp.items, ip, [expiresAt |-> expiresAt, index |-> n])]
    IN heapUp(pushed, n)

\* IPExpiryHeap.Pop: the last element leaves the slice; returns [hp, ip]
PopLast(d) ==
    [hp |-> [heap |-> SubSeq(d.heap, 1, Len(d.heap) - 1),
             items |-> [d.items EXCEPT ![d.heap[Len(d.heap)]].index = -1]],
     ip |-> d.heap[Len(d.heap)]]

\* heap.Pop: Swap(0, n), down(0, n), IPExpiryHeap.Pop
heapPop(hp) ==
    PopLast(heapDown(Swap(hp, 0, Len(hp.heap) - 1), 0, Len(hp.heap) - 1).hp)

\* heap.Fix: up(i) only if down(i) did not move the element
FixAfterDown(hp, i, d) == IF d.i > i THEN d.hp ELSE heapUp(hp, i)

heapFix(hp, i) == FixAfterDown(hp, i, heapDown(hp, i, Len(hp.heap)))

Peek(hp) == hp.heap[1]

UpdatePush(hp, ip, expiresAt) == heapPush(hp, ip, expiresAt)

\* item.expiresAt = expiresAt
SetExpiresAt(hp, ip, expiresAt) == [hp EXCEPT !.items[ip].expiresAt = expiresAt]

UpdateNoFix(hp, ip, expiresAt) == SetExpiresAt(hp, ip, expiresAt)

Update(hp, ip, expiresAt) ==
    heapFix(SetExpiresAt(hp, ip, expiresAt), hp.items[ip].index)

\* ------------------------------------------------------- MemoryIPRecorder
\* A recorder value r is [blockedIPs, expiryItems, expiryHeap].
Recorder == [blockedIPs |-> blockedIPs, expiryItems |-> expiryItems,
             expiryHeap |-> expiryHeap]

HeapOf(r) == [heap |-> r.expiryHeap, items |-> r.expiryItems]

WithHeap(r, hp) == [r EXCEPT !.expiryHeap = hp.heap, !.expiryItems = hp.items]

DeleteAll(r, toDelete) ==
    [r EXCEPT !.blockedIPs = MapDel(r.blockedIPs, SeqToSet(toDelete)),
              !.expiryItems = MapDel(r.expiryItems, SeqToSet(toDelete))]

\* the collection loop shared by cleanupExpired and ensureCapacity:
\* pop while the top is not After(t); returns [hp, toDelete]
RECURSIVE popExpired(_, _, _)
Collect(p, t, toDelete) == popExpired(p.hp, t, Append(toDelete, p.ip))

popExpired(hp, t, toDelete) ==
    IF Len(hp.heap) = 0 \/ hp.items[Peek(hp)].expiresAt > t
    THEN [hp |-> hp, toDelete |-> toDelete]
    ELSE Collect(heapPop(hp), t, toDelete)

\* the deletion loop over toDelete; returns [r, removed]
Collected(r, c) ==
    [r |-> DeleteAll(WithHeap(r, c.hp), c.toDelete), removed |-> c.toDelete]

\* a sweep that keeps the entries expiring at the current instant
cleanupExpiredBefore(r, t) == Collected(r, popExpired(HeapOf(r), t - 1, <<>>))

cleanupExpired(r, t) == Collected(r, popExpired(HeapOf(r), t, <<>>))

\* the forced loop of ensureCapacity; returns [r, removed]
RECURSIVE evictEarliest(_, _)
Evict(r, removed, p) ==
    evictEarliest(DeleteAll(WithHeap(r, p.hp), <<p.ip>>), Append(removed, p.ip))

\* the forced loop removes nothing
evictEarliestNone(r, removed) == [r |-> r, removed |-> removed]

evictEarliest(r, removed) ==
    IF Cardinality(DOMAIN r.blockedIPs) >= Capacity /\ Len(r.expiryHeap) > 0
    THEN Evict(r, removed, heapPop(HeapOf(r)))
    ELSE [r |-> r, removed |-> removed]

MadeRoom(c, f) == [r |-> f.r, expired |-> c.removed, forced |-> f.removed]

ForcedAfter(c) == MadeRoom(c, evictEarliest(c.r, <<>>))

\* room is never made
ensureCapacityNever(r, t) == [r |-> r, expired |-> <<>>, forced |-> <<>>]

\* returns [r, expired, forced]: the recorder, the expired entries discarded
\* and the unexpired entries forcibly evicted
ensureCapacity(r, t) ==
    IF Cardinality(DOMAIN r.blockedIPs) < Capacity
    THEN [r |-> r, expired |-> <<>>, forced |-> <<>>]
    ELSE ForcedAfter(cleanupExpired(r, t))

NewRecord(ip, reason, t, d) ==
    [IP |-> ip, Reason |-> reason, BlockedAt |-> t, BlockedUntil |-> t + d]

\* the new record and its heap item are added to the recorder e.r
AddRecord(e, ip, record) ==
    LET added == [e.r EXCEPT !.blockedIPs = MapPut(e.r.blockedIPs, ip, record)]
    IN [r |-> WithHeap(added, heapPush(HeapOf(added), ip, record.BlockedUntil)),
        existed |-> FALSE, expired |-> e.expired, forced |-> e.forced]

\* returns [r, existed, expired, forced]
RecordBlockedIP(r, ip, reason, d, t) ==
    IF ip \in DOMAIN r.expiryItems
    THEN [r |-> WithHeap([r EXCEPT !.blockedIPs[ip] = NewRecord(ip, reason, t, d)],
                         Update(HeapOf(r), ip, t + d)),
          existed |-> TRUE, expired |-> <<>>, forced |-> <<>>]
    ELSE AddRecord(ensureCapacity(r, t), ip, NewRecord(ip, reason, t, d))

\* the zero time.Time is modelled as a negative instant
IsZero(t) == t < 0

\* returns [blocked, record]
IsIPBlockedNever(r, ip, t) == [blocked |-> FALSE, record |-> "nil"]

IsIPBlocked(r, ip, t) ==
    IF ip \notin DOMAIN r.blockedIPs
    THEN [blocked |-> FALSE, record |-> "nil"]
    ELSE LET record == r.blockedIPs[ip]
         IN IF IsZero(record.BlockedUntil) \/ t > record.BlockedUntil
            THEN [blocked |-> FALSE, record |-> "nil"]
            ELSE [blocked |-> TRUE, record |-> record]

GetBlockedIPs(r, t) ==
    {r.blockedIPs[ip] : ip \in {x \in DOMAIN r.blockedIPs : t < r.blockedIPs[x].BlockedUntil}}

banVars == <<blockedIPs, expiryItems, expiryHeap, lastOp, granted>>
ipVars == <<ipReq, ipResult>>
engineVars == <<cfg, txs, cache, workers, evictor, out, nreq>>
persistVars == <<persister, inbox, batch, written, mongo, mls>>
lockVars == <<mu, tasks>>
vars == <<now, blockedIPs, expiryItems, expiryHeap, lastOp, granted, ipReq, ipResult,
          cfg, txs, cache, workers, evictor, out, nreq,
          persister, inbox, batch, written, mongo, mls, mu, tasks>>

SetRecorder(r) ==
    /\ blockedIPs' = r.blockedIPs
    /\ expiryItems' = r.expiryItems
    /\ expiryHeap' = r.expiryHeap

BanInit ==
    /\ blockedIPs = EmptyMap
    /\ expiryItems = EmptyMap
    /\ expiryHeap = <<>>
    /\ lastOp = [op |-> "init"]
    /\ granted = EmptyMap

Tick ==
    /\ now < MaxTime
    /\ now' = now + 1
    /\ lastOp' = [op |-> "tick"]
    /\ out' = [op |-> "tick"]
    /\ UNCHANGED <<blockedIPs, expiryItems, expiryHeap, granted, ipVars, persistVars, lockVars,
                   cfg, txs, cache, workers, evictor, nreq>>

BanEffects(res, ip, reason, d) ==
    /\ SetRecorder(res.r)
    /\ lastOp' = [op |-> "ban", ip |-> ip, reason |-> reason, until |-> now + d,
                  existed |-> res.existed, expired |-> res.expired,
                  forced |-> res.forced]
    /\ granted' = MapPut(MapDel(granted, SeqToSet(res.expired) \cup SeqToSet(res.forced)),
                         ip, [reason |-> reason, until |-> now + d])

Banned(res, ip, reason, d) ==
    /\ BanEffects(res, ip, reason, d)
    /\ UNCHANGED <<now, ipVars, persistVars, lockVars, engineVars>>

Ban(ip, reason, d) == Banned(RecordBlockedIP(Recorder, ip, reason, d, now), ip, reason, d)

Swept(res) ==
    /\ SetRecorder(res.r)
    /\ lastOp' = [op |-> "sweep", removed |-> res.removed]
    /\ UNCHANGED <<now, granted, ipVars, persistVars, lockVars, engineVars>>

Sweep == Swept(cleanupExpired(Recorder, now))

BanNext ==
    \/ Tick
    \/ \E ip \in IPs, reason \in Reasons, d \in Durations : Ban(ip, reason, d)
    \/ Sweep

\* --------------------------------------------- requests given to getRealClientIP
\* Header names as a proxy may spell them, and the values they carry: a value
\* is a list of addresses, written "a, b"; an empty first element writes ", b".
WrittenNames ==
    {"X-Forwarded-For", "x-real-ip", "true-client-ip", "cf-connecting-ip",
     "fastly-client-ip", "x-client-ip", "x-original-forwarded-for", "Forwarded",
     "x-cluster-client-ip", "Host"}

WrittenValues == {<<>>, <<"ip1">>, <<"ip2", "ip3">>, <<"", "ip3">>}

HeaderLines ==
    [kind : {"header"}, name : WrittenNames, elems : WrittenValues]
        \cup {[kind |-> "blank"], [kind |-> "garbage"]}

RECURSIVE RenderList(_)
RenderList(elems) ==
    IF Len(elems) = 0 THEN <<>>
    ELSE LET first == IF Head(elems) = "" THEN <<>> ELSE <<Head(elems)>>
         IN IF Len(elems) = 1 THEN first
            ELSE first \o <<",", " ">> \o RenderList(Tail(elems))

RenderValue(l) ==
    IF ToLower(l.name) = "forwarded"
    THEN IF Len(l.elems) > 0 /\ l.elems[1] # ""
         THEN <<"for", "=", l.elems[1], ";", "proto", "=", "https">>
         ELSE <<"proto", "=", "https">>
    ELSE RenderList(l.elems)

\* Forwarded headers as RFC 7239 writes them: a for parameter, before or after
\* another parameter, its value bare or quoted, an IPv6 address in brackets
V6 == <<"2001", ":", "db8", ":", ":", "1">>

ForwardedLines ==
    [kind : {"forwarded"}, name : {"Forwarded", "forwarded"},
     ip : {<<>>, <<"ip1">>, V6}, quoted : BOOLEAN, bracketed : BOOLEAN,
     first : BOOLEAN, spaced : BOOLEAN]

RenderFor(l) ==
    LET q == IF l.quoted THEN <<"\"">> ELSE <<>>
        sp == IF l.spaced THEN <<" ">> ELSE <<>>
        addr == IF l.bracketed THEN <<"[">> \o l.ip \o <<"]">> ELSE l.ip
    IN sp \o <<"for">> \o sp \o <<"=">> \o sp \o q \o addr \o q

RenderForwarded(l) ==
    IF l.first THEN RenderFor(l) \o <<";", "proto", "=", "https">>
    ELSE <<"proto", "=", "https", ";">> \o RenderFor(l)

RenderLine(l) ==
    CASE l.kind = "blank" -> <<CR, NL>>
      [] l.kind = "garbage" -> <<"garbage", CR, NL>>
      [] l.kind = "forwarded" -> <<l.name, ":", " ">> \o RenderForwarded(l) \o <<CR, NL>>
      [] OTHER -> <<l.name, ":", " ">> \o RenderValue(l) \o <<CR, NL>>

RECURSIVE RenderBlock(_)
RenderBlock(lines) ==
    IF Len(lines) = 0 THEN <<>> ELSE RenderLine(Head(lines)) \o RenderBlock(Tail(lines))

BlocksUpTo(n) == UNION {[1..k -> HeaderLines] : k \in 0..n}

IPInputs == [lines : BlocksUpTo(MaxLines), SrcIp : {"invalid", <<"ip3">>}]

RequestOf(in) == [Headers |-> RenderBlock(in.lines), SrcIp |-> in.SrcIp]

\* requests whose only forwarding header is Forwarded, alone or next to Host
HostLine == [kind |-> "header", name |-> "Host", elems |-> <<"ip2">>]

ForwardedInputs ==
    [lines : {<<f>> : f \in ForwardedLines}
                \cup {<<HostLine, f>> : f \in ForwardedLines}
                \cup {<<f, HostLine>> : f \in ForwardedLines},
     SrcIp : {"invalid", <<"ip3">>}]

\* header blocks given to getHeaderValue: names in several spellings, values
\* that are empty, plain, or hold a colon or a blank, written with or without
\* blanks around name and value; lines end in CR LF or LF, and the last line
\* may lack its line end
LookupNames == {"Host", "host", "X-Real-IP", "x-real-ip"}

LookupValues == {<<>>, <<"v1">>, <<"v1", ":", "v2">>, <<"v1", " ", "v2">>}

LookupLines ==
    [kind : {"header"}, name : LookupNames, value : LookupValues, padded : BOOLEAN]
        \cup {[kind |-> "blank"], [kind |-> "garbage"]}

LookupTargets == {"host", "HOST", "X-Real-IP", "x-real-ip", "not-exist"}

WriteLine(l) ==
    CASE l.kind = "blank" -> <<>>
      [] l.kind = "garbage" -> <<"garbage">>
      [] l.padded -> <<" ", l.name, " ", ":", " ", "\t">> \o l.value \o <<" ">>
      [] OTHER -> <<l.name, ":">> \o l.value

RECURSIVE WriteBlock(_, _, _)
WriteBlock(lines, eol, closed) ==
    IF Len(lines) = 0 THEN <<>>
    ELSE IF Len(lines) = 1 /\ ~closed THEN WriteLine(Head(lines))
    ELSE WriteLine(Head(lines)) \o eol \o WriteBlock(Tail(lines), eol, closed)

LookupInputs ==
    [lines : UNION {[1..k -> LookupLines] : k \in 0..MaxLines},
     eol : {<<CR, NL>>, <<NL>>}, closed : BOOLEAN, target : LookupTargets]

\* one call of getHeaderValue and one of getHeaderValueOld on the same input;
\* both have `return ..., nil` as their only returns
LookupHeader ==
    /\ out.op = "init"
    /\ LET headers == WriteBlock(ipReq.lines, ipReq.eol, ipReq.closed)
       IN out' = [op |-> "getHeaderValue",
                  value |-> getHeaderValue(headers, <<ipReq.target>>), err |-> "nil",
                  old |-> getHeaderValueOld(headers, <<ipReq.target>>), oldErr |-> "nil"]
    /\ UNCHANGED <<now, banVars, ipVars, persistVars, lockVars, cfg, txs, cache, workers,
                   evictor, nreq>>

IPIdle ==
    /\ ipReq = [lines |-> <<>>, SrcIp |-> "invalid"]
    /\ ipResult = <<"unset">>

IPInit ==
    /\ ipReq \in IPInputs
    /\ ipResult = <<"unset">>

\* ------------------------------------------------ transaction correlation engine
Workers == {"w1", "w2"}

\* which collaborators NewApplicationWithContext configured; the flow
\* controller is only created together with the IP recorder
\* (response checking is explored with the recorder and the micro engine on)
Configs ==
    {c \in [ResponseCheck : BOOLEAN, logStore : BOOLEAN, ipRecorder : BOOLEAN,
            flowController : BOOLEAN, ruleEngine : BOOLEAN, ruleEngineOff : BOOLEAN] :
        /\ c.flowController => c.ipRecorder
        /\ c.ResponseCheck => c.ipRecorder /\ c.ruleEngine}

\* the request-phase messages of the proxy: the id <<>> is an absent id
EngineRequests ==
    [ID : {<<>>, <<"a">>},
     SrcIp : {<<"ip2">>},
     Headers : {<<>>,
                <<"X-Forwarded-For", ":", " ", "ip1", ",", " ", "ip3", CR, NL>>,
                <<"garbage", CR, NL>>}]

ResponseIDs == {<<>>, <<"a">>, <<"zz">>}
\* response statuses on either side of the error class
ResponseStatuses == {399, 400}

\* the header block of a response-phase message: well-formed, or with a line
\* that has no colon
ResponseHeaders ==
    {<<"Server", ":", " ", "x", CR, NL>>, <<"garbage", CR, NL>>}

IdleWorker == [pc |-> "idle", id |-> <<>>, t |-> 0]

EngineStart ==
    /\ txs = <<>>
    /\ cache = EmptyMap
    /\ workers = [w \in Workers |-> IdleWorker]
    /\ evictor = [pc |-> "idle", t |-> 0]
    /\ out = [op |-> "init"]
    /\ nreq = 0

EngineIdle ==
    /\ cfg = [ResponseCheck |-> TRUE, logStore |-> TRUE, ipRecorder |-> TRUE,
              flowController |-> TRUE, ruleEngine |-> TRUE, ruleEngineOff |-> FALSE]
    /\ EngineStart

EngineInit ==
    /\ cfg \in Configs
    /\ EngineStart

\* time.Format(time.RFC3339) of an instant given in seconds
Digit(n) == <<"0", "1", "2", "3", "4", "5", "6", "7", "8", "9">>[n + 1]
FormatRFC3339(t) ==
    <<"1970-01-01T00:00:", Digit((t \div 10) % 10), Digit(t % 10), "Z">>

BanMessage(record) ==
    <<"IP has been blocked until ">> \o FormatRFC3339(record.BlockedUntil)
        \o <<" due to ", record.Reason>>

\* the id generated when the message carries none: 16 random letters
GeneratedID(n) == <<"generated", Digit(n)>>

\* the id taken from the message as it is, absent or not
RequestIDAsGiven(req) == req.ID

RequestID(req) == IF req.ID = <<>> THEN GeneratedID(nreq + 1) ELSE req.ID

\* a transaction: its id, its guard m, and how often it was finalized
NewTx(id) == [id |-> id, locked |-> FALSE, finalized |-> 0]

\* the status an engine interruption carries is the rule's (it.Status)
EngineStatus == "it.Status"
NoStatus == "none"
Status403 == "403"
Status429 == "429"

\* the decision of HandleRequest's deferred function: defer, or finalize now
DeferAlways(err) == cfg.ResponseCheck

Deferred(err) == err = "nil" /\ cfg.ResponseCheck

\* a finalization that leaves the transaction open
FinalizeNever(tx) == tx

\* tx.ProcessLogging() and tx.Close()
Finalize(tx) == [tx EXCEPT !.finalized = @ + 1]

\* the calls of the deferred functions of HandleRequest and HandleResponse:
\* attack recording and the firewall log, then the logging hook and the release
FinalizeCalls(res) ==
    (IF res.interrupted /\ cfg.logStore /\ cfg.flowController
     THEN <<"RecordAttack">> ELSE <<>>)
    \o (IF res.interrupted /\ cfg.logStore /\ res.matched
        THEN <<"Store:firewall">> ELSE <<>>)
    \o <<"ProcessLogging", "Close">>

\* tx.IsRuleEngineOff(): the matching engine evaluates no rule
IsRuleEngineOffNever == FALSE

IsRuleEngineOff == cfg.ruleEngineOff

\* what the matching engine does with a message: the handler's return and the
\* transaction's state, with the phases it ran (application.go 332-348)
WafOutcomes ==
    LET phases == <<"ProcessHeaders", "WriteBody", "ProcessBody">>
    IN [err : {"nil"}, interrupted : {FALSE}, matched : BOOLEAN, fed : {phases}]
       \cup [err : {"error"}, interrupted : {FALSE}, matched : {FALSE},
             fed : {SubSeq(phases, 1, 2), phases}]
       \cup [err : {"deny"}, interrupted : {TRUE}, matched : BOOLEAN,
             fed : {SubSeq(phases, 1, k) : k \in 1..3}]

\* the outcomes of the handler's steps after the transaction was opened
RequestOutcomes(req) ==
    LET id == RequestID(req)
        ret(err, status, md, i, m, fed) ==
            [err |-> err, status |-> status, metaId |-> md,
             interrupted |-> i, matched |-> m, fed |-> fed]
        connection == <<"ProcessConnection", "ProcessURI">>
        headers == [k \in 1..Len(readHeaders(req.Headers).pairs) |-> "AddRequestHeader"]
    IN {ret("error", NoStatus, <<>>, FALSE, FALSE, <<"SetString:fail">>)}
       \cup (IF IsRuleEngineOff
             THEN {ret("nil", NoStatus, id, FALSE, FALSE, <<"SetString">>)}
             ELSE IF readHeaders(req.Headers).err
             THEN {ret("error", NoStatus, id, FALSE, FALSE,
                       <<"SetString">> \o connection \o headers)}
             ELSE {ret(o.err, IF o.err = "deny" THEN EngineStatus ELSE NoStatus, id,
                       o.interrupted, o.matched,
                       <<"SetString">> \o connection \o headers \o o.fed) :
                   o \in WafOutcomes})

\* HandleRequest from NewTransactionWithID on, with the deferred function; seen
\* holds what the earlier steps returned
RequestTx(req, realIP, calls, seen, res) ==
    LET id == RequestID(req)
        t == Len(txs) + 1
        tx == NewTx(id)
        ret(cs) == [op |-> "HandleRequest", req |-> req,
                    err |-> res.err, status |-> res.status,
                    data |-> <<>>, id |-> id, realIP |-> realIP,
                    metaId |-> res.metaId, tx |-> t, calls |-> cs,
                    visit |-> seen.visit, match |-> seen.match,
                    interrupted |-> res.interrupted, matched |-> res.matched]
    IN IF Deferred(res.err)
       THEN /\ txs' = Append(txs, tx)
            /\ cache' = MapPut(cache, id, [tx |-> t, expiration |-> now + TransactionTTL])
            /\ out' = ret(calls \o <<"NewTransaction">> \o res.fed
                              \o <<"SetWithExpiration">>)
       ELSE /\ txs' = Append(txs, Finalize(tx))
            /\ cache' = cache
            /\ out' = ret(calls \o <<"NewTransaction">> \o res.fed \o FinalizeCalls(res))

\* a deny returned before any transaction is opened
Denied(req, realIP, calls, seen, status, data) ==
    [op |-> "HandleRequest", req |-> req,
     err |-> "deny", status |-> status, data |-> data,
     id |-> RequestID(req), realIP |-> realIP, metaId |-> <<>>, tx |-> 0,
     calls |-> calls, visit |-> seen.visit, match |-> seen.match,
     interrupted |-> FALSE, matched |-> FALSE]

\* CheckVisit returned not-allowed and no error
FlowDeniesNever(visit) == FALSE

FlowDenies(visit) == visit = "denied"

\* MatchRequest returned shouldBlock and no error, with a rule or with none
MicroDeniesNever(match) == FALSE

MicroDenies(match) == match \in {"block", "block-nil-rule"}

\* what CheckVisit and MatchRequest returned, "none" when not called
Seen(visit, match) == [visit |-> visit, match |-> match]

\* HandleRequest after the ban lookup: flow control, micro engine, transaction
RequestUnbanned(req, realIP, calls0) ==
    \E visit \in (IF cfg.flowController THEN {"allowed", "denied", "error"} ELSE {"none"}) :
        LET calls1 == IF visit = "none" THEN calls0 ELSE Append(calls0, "CheckVisit")
        IN IF FlowDenies(visit)
           THEN /\ out' = Denied(req, realIP, calls1, Seen(visit, "none"),
                                 Status429, <<"Too many requests">>)
                /\ UNCHANGED <<txs, cache>>
           ELSE \E match \in (IF cfg.ruleEngine
                              THEN {"pass", "error", "block", "block-nil-rule"}
                              ELSE {"none"}) :
                LET calls2 == IF match = "none" THEN calls1
                              ELSE Append(calls1, "MatchRequest")
                    calls3 == IF cfg.flowController THEN Append(calls2, "RecordAttack")
                              ELSE calls2
                    seen == Seen(visit, match)
                IN IF MicroDenies(match)
                   THEN /\ UNCHANGED <<txs, cache>>
                        /\ IF cfg.logStore
                           THEN out' = Denied(req, realIP,
                                    Append(calls3, IF match = "block" THEN "Store:micro:rule"
                                                   ELSE "Store:micro:whitelist block"),
                                    seen, Status403, <<>>)
                           ELSE \* a.logStore is nil: saveMicroEngineLog dereferences it
                                out' = [Denied(req, realIP, calls3, seen, NoStatus, <<>>)
                                            EXCEPT !.err = "panic"]
                   ELSE \E res \in RequestOutcomes(req) :
                            RequestTx(req, realIP, calls2, seen, res)

HandleRequest(req) ==
    LET realIP == getRealClientIP(req)
        ban == IF cfg.ipRecorder THEN IsIPBlocked(Recorder, realIP, now)
               ELSE [blocked |-> FALSE, record |-> "nil"]
        calls0 == IF cfg.ipRecorder THEN <<"IsIPBlocked">> ELSE <<>>
    IN /\ nreq < MaxReq
       /\ now + TransactionTTL <= MaxTime
       /\ nreq' = nreq + 1
       /\ IF ban.blocked
          THEN /\ out' = Denied(req, realIP, calls0, Seen("none", "none"),
                                Status403, BanMessage(ban.record))
               /\ UNCHANGED <<txs, cache>>
          ELSE RequestUnbanned(req, realIP, calls0)
       /\ UNCHANGED <<now, banVars, ipVars, persistVars, lockVars, cfg, workers, evictor>>

\* ---- HandleResponse, one goroutine per message, step by step
SetWorker(w, rec) == workers' = [workers EXCEPT ![w] = rec]

\* a handler returns err after making the calls; before that it is running
Returned(err, calls) == [op |-> "HandleResponse", err |-> err, calls |-> calls]

Running == [op |-> "running"]

\* cache.Get misses: the transaction is unknown (the agent was restarted)
HandleResponseMissError(w, id) ==
    /\ SetWorker(w, IdleWorker)
    /\ out' = Returned("error", <<"Get:miss">>)
    /\ UNCHANGED <<cache, txs>>

HandleResponseMiss(w, id) ==
    /\ SetWorker(w, IdleWorker)
    /\ out' = Returned("nil", <<"Get:miss">>)
    /\ UNCHANGED <<cache, txs>>

\* HandleResponse refuses the message before it looks into the cache
ResponseRejectedEmptyId(id) == id = <<>>

ResponseRejected(id) == ~cfg.ResponseCheck \/ id = <<>>

\* entry of HandleResponse up to cache.Get
ResponseGet(w, id) ==
    /\ workers[w].pc = "idle"
    /\ IF ResponseRejected(id)
       THEN /\ SetWorker(w, IdleWorker)
            /\ out' = Returned("error", <<>>)
            /\ UNCHANGED <<cache, txs>>
       ELSE IF id \notin DOMAIN cache
       THEN HandleResponseMiss(w, id)
       ELSE /\ SetWorker(w, [pc |-> "remove", id |-> id, t |-> cache[id].tx])
            /\ out' = Running
            /\ UNCHANGED <<cache, txs>>
    /\ UNCHANGED <<now, banVars, ipVars, persistVars, lockVars, cfg, evictor, nreq>>

\* a.cache.Remove(res.ID)
ResponseRemove(w) ==
    /\ workers[w].pc = "remove"
    /\ cache' = MapDel(cache, {workers[w].id})
    /\ SetWorker(w, [workers[w] EXCEPT !.pc = "trylock"])
    /\ out' = Running
    /\ UNCHANGED <<now, banVars, ipVars, persistVars, lockVars, cfg, txs, evictor, nreq>>

\* sync.Mutex.TryLock on the transaction's guard
TryLockBlind(tx) == TRUE

TryLock(tx) == ~tx.locked

\* what HandleResponse returns when it loses the guard
LostGuardSilent == "nil"

LostGuard == "error"

\* t.m.TryLock() in HandleResponse
ResponseTryLock(w) ==
    LET t == workers[w].t
    IN /\ workers[w].pc = "trylock"
       /\ IF TryLock(txs[t])
          THEN /\ txs' = [txs EXCEPT ![t].locked = TRUE]
               /\ SetWorker(w, [workers[w] EXCEPT !.pc = "process"])
               /\ out' = Running
          ELSE /\ SetWorker(w, IdleWorker)
               /\ out' = Returned(LostGuard, <<"TryLock:fail">>)
               /\ UNCHANGED txs
       /\ UNCHANGED <<now, banVars, ipVars, persistVars, lockVars, cfg, cache, evictor, nreq>>

\* the status from which a response counts as an error at the gate
ErrorClassAny(status) == TRUE

ErrorClass(status) == status >= 400

\* the header blocks as readHeaders reads them
ResponseBlocks == {[headers |-> h, read |-> readHeaders(h)] : h \in ResponseHeaders}

\* the outcomes of the response phase once the guard is held: rule engine
\* off, a header line that does not parse, or what the matching engine does
ResponseOutcomes(read) ==
    LET added == [k \in 1..Len(read.pairs) |-> "AddResponseHeader"]
    IN IF IsRuleEngineOff
       THEN {[err |-> "nil", interrupted |-> FALSE, matched |-> FALSE, fed |-> <<>>]}
       ELSE IF read.err
       THEN {[err |-> "error", interrupted |-> FALSE, matched |-> FALSE, fed |-> added]}
       ELSE {[o EXCEPT !.fed = added \o @] : o \in WafOutcomes}

\* what HandleResponse returned after it held the guard, the message it had
\* and the transaction's state at the deferred function
Processed(res, status, headers, t, calls) ==
    [op |-> "HandleResponse", err |-> res.err, calls |-> calls, tx |-> t,
     status |-> status, headers |-> headers,
     interrupted |-> res.interrupted, matched |-> res.matched]

\* HandleResponse from RecordError to the deferred finalization
ResponseProcess(w) ==
    LET t == workers[w].t
    IN /\ workers[w].pc = "process"
       /\ SetWorker(w, IdleWorker)
       /\ txs' = [txs EXCEPT ![t] = Finalize(@)]
       /\ \E r \in ResponseBlocks :
            \E res \in ResponseOutcomes(r.read), status \in ResponseStatuses :
                out' = Processed(res, status, r.headers, t,
                           (IF ErrorClass(status) /\ cfg.flowController
                            THEN <<"RecordError">> ELSE <<>>)
                           \o res.fed \o FinalizeCalls(res))
       /\ UNCHANGED <<now, banVars, ipVars, persistVars, lockVars, cfg, cache, evictor, nreq>>

\* ---- the cache's eviction goroutine (evictExpired, then the callback)
EvictDelete(id) ==
    /\ evictor.pc = "idle"
    /\ id \in DOMAIN cache
    /\ cache[id].expiration <= now
    /\ cache' = MapDel(cache, {id})
    /\ evictor' = [pc |-> "callback", t |-> cache[id].tx]
    /\ out' = Running
    /\ UNCHANGED <<now, banVars, ipVars, persistVars, lockVars, cfg, txs, workers, nreq>>

\* a callback that treats the evicted transaction like an interrupted one
EvictionCallsRecording ==
    <<"TryLock:ok", "RecordAttack", "Store:firewall", "ProcessLogging", "Close">>

\* what the eviction callback calls once it holds the guard
EvictionCalls == <<"TryLock:ok", "ProcessLogging", "Close">>

\* the eviction callback given to cache.NewTTLWithCallback
EvictCallback ==
    LET t == evictor.t
    IN /\ evictor.pc = "callback"
       /\ IF TryLock(txs[t])
          THEN /\ txs' = [txs EXCEPT ![t] = Finalize([@ EXCEPT !.locked = TRUE])]
               /\ out' = [op |-> "evict", calls |-> EvictionCalls]
          ELSE /\ UNCHANGED txs
               /\ out' = [op |-> "evict", calls |-> <<"TryLock:fail">>]
       /\ evictor' = [pc |-> "idle", t |-> 0]
       /\ UNCHANGED <<now, banVars, ipVars, persistVars, lockVars, cfg, cache, workers, nreq>>

\* ------------------------------------------------------------ the persisters
\* MongoIPRecorder (write queue, batchWriteLoop) and MongoLogStore (log
\* channel, processLogs): one of the two runs in a behaviour
PersisterKinds == {"ip", "log"}

\* the addresses whose bans are pushed
PushedIPs == {<<"ip1">>, <<"ip2">>}

\* the zero value a receive from a closed, drained channel yields
ZeroRecord == [IP |-> <<>>, Reason |-> "", BlockedAt |-> -1, BlockedUntil |-> -1]

\* a WAFLog, by the request it belongs to
LogEntry(n) == [RequestID |-> n]

\* no write call, and the write call of a batch with the error it returned
NoCall == [made |-> FALSE, batch |-> <<>>, err |-> FALSE]

WriteCall(b, err) == [made |-> TRUE, batch |-> b, err |-> err]

\* the collection before anything is written: its documents by key, the write
\* call of the last step, whether a record was dropped at a full inbox,
\* whether a write call failed, whether one write call carried two records
\* of a key (twice)
MongoEmpty == [docs |-> EmptyMap, call |-> NoCall, dropped |-> FALSE, failed |-> FALSE,
               twice |-> FALSE]

\* a MongoLogStore as its constructor returns it: not started, the channel
\* open and empty, no processLogs goroutine
NewMongoLogStore == [processStarted |-> FALSE, closed |-> FALSE, logChan |-> <<>>,
                     loops |-> <<>>, stored |-> 0]

\* after the constructor: channels open, the loop goroutine started, nothing
\* pushed (processStarted is MongoLogStore's flag, set by Start)
PersistInit ==
    /\ persister \in {[kind |-> k, closed |-> FALSE, stopWriter |-> FALSE,
                       processStarted |-> k = "log", pc |-> "running", pushes |-> 0] :
                      k \in PersisterKinds}
    /\ inbox = <<>>
    /\ batch = <<>>
    /\ written = {}
    /\ mongo = MongoEmpty
    /\ mls = NewMongoLogStore

\* no persister in the behaviour
PersistIdle ==
    /\ persister = [kind |-> "none", closed |-> FALSE, stopWriter |-> FALSE,
                    processStarted |-> FALSE, pc |-> "exited", pushes |-> 0]
    /\ inbox = <<>>
    /\ batch = <<>>
    /\ written = {}
    /\ mongo = MongoEmpty
    /\ mls = NewMongoLogStore

\* what a push returned: nil, or the panic of a send on a closed channel
Pushed(op, ret, record, dropped) ==
    [op |-> op, ret |-> ret, record |-> record, dropped |-> dropped]

\* a full inbox makes room by dropping its oldest record
EnqueueDropOldest(op, record) ==
    IF persister.closed
    THEN inbox' = inbox /\ out' = Pushed(op, "panic", record, FALSE)
    ELSE IF Len(inbox) < ChannelSize
    THEN inbox' = Append(inbox, record) /\ out' = Pushed(op, "nil", record, FALSE)
    ELSE inbox' = Append(Tail(inbox), record) /\ out' = Pushed(op, "nil", record, TRUE)

\* select { case ch <- record: default: warn }, then return nil
Enqueue(op, record) ==
    IF persister.closed
    THEN inbox' = inbox /\ out' = Pushed(op, "panic", record, FALSE)
    ELSE IF Len(inbox) < ChannelSize
    THEN inbox' = Append(inbox, record) /\ out' = Pushed(op, "nil", record, FALSE)
    ELSE inbox' = inbox /\ out' = Pushed(op, "nil", record, TRUE)

CountPush == persister' = [persister EXCEPT !.pushes = @ + 1]

\* a push writes nothing; a record dropped at a full inbox is lost
NoWrite(dropped) == mongo' = [mongo EXCEPT !.call = NoCall, !.dropped = @ \/ dropped]

\* MongoIPRecorder.RecordBlockedIP, given what the memory recorder did
MongoRecorded(res, ip, reason, d) ==
    /\ BanEffects(res, ip, reason, d)
    /\ Enqueue("RecordBlockedIP", NewRecord(ip, reason, now, d))
    /\ CountPush
    /\ NoWrite(out'.dropped)
    /\ UNCHANGED <<now, lockVars, ipVars, cfg, txs, cache, workers, evictor, nreq, batch, written,
                   mls>>

MongoRecordBlockedIP(ip, reason, d) ==
    /\ persister.kind = "ip"
    /\ persister.pushes < MaxPush
    /\ MongoRecorded(RecordBlockedIP(Recorder, ip, reason, d, now), ip, reason, d)

\* MongoLogStore.Store
Store ==
    /\ persister.kind = "log"
    /\ persister.pushes < MaxPush
    /\ Enqueue("Store", LogEntry(persister.pushes + 1))
    /\ CountPush
    /\ NoWrite(out'.dropped)
    /\ UNCHANGED <<now, lockVars, banVars, ipVars, cfg, txs, cache, workers, evictor, nreq,
                   batch, written, mls>>

\* the document a record is written to: the one the upsert's filter
\* {"ip": record.IP} selects, or the log's own
KeyOf(record) == IF persister.kind = "ip" THEN record.IP ELSE record.RequestID

\* the documents after the writes of b were applied one after the other
RECURSIVE Apply(_, _)
Apply(docs, b) ==
    IF b = <<>> THEN docs
    ELSE Apply(MapPut(docs, KeyOf(Head(b)), Head(b)), Tail(b))

\* the records of b at the positions S, in every order
Orders(b, S) ==
    LET n == Cardinality(S)
    IN {[i \in 1..n |-> b[f[i]]] :
            f \in {g \in [1..n -> S] : \A i, j \in 1..n : i # j => g[i] # g[j]}}

\* collection.BulkWrite(models, SetOrdered(false)): the server applies the
\* upserts in an order of its own; when the call returns an error, any of
\* them may have been applied
BulkWrite(docs, b) ==
    {[docs |-> Apply(docs, o), err |-> FALSE] : o \in Orders(b, 1..Len(b))}
        \cup {[docs |-> Apply(docs, o), err |-> TRUE] :
                  o \in UNION {Orders(b, S) : S \in SUBSET (1..Len(b))}}

\* collection.InsertMany(batch): the documents are inserted in order, up to
\* the first failure when the call returns an error
InsertMany(docs, b) ==
    {[docs |-> Apply(docs, b), err |-> FALSE]}
        \cup {[docs |-> Apply(docs, SubSeq(b, 1, n)), err |-> TRUE] : n \in 0..Len(b)}

\* two records of the batch go to the same document
SameKeyTwice(b) == \E i, j \in 1..Len(b) : i # j /\ KeyOf(b[i]) = KeyOf(b[j])

\* flushBatch: nothing for an empty batch, else one BulkWrite / InsertMany,
\* whose error is logged and not returned
Flush(b) ==
    IF Len(b) = 0
    THEN written' = written /\ mongo' = [mongo EXCEPT !.call = NoCall]
    ELSE /\ written' = written \cup SeqToSet(b)
         /\ \E o \in (IF persister.kind = "ip" THEN BulkWrite(mongo.docs, b)
                       ELSE InsertMany(mongo.docs, b)) :
                mongo' = [docs |-> o.docs, call |-> WriteCall(b, o.err),
                          dropped |-> mongo.dropped,
                          failed |-> mongo.failed \/ o.err,
                          twice |-> mongo.twice \/ SameKeyTwice(b)]

\* a batch that is kept for another try when its write failed
ResetUnlessFailed(b, err) == IF err THEN b ELSE <<>>

\* batch = batch[:0] after a flush, whatever the write returned
Reset(b, err) == <<>>

\* a batch that is flushed only once it is over the threshold
FullLate(b) == Len(b) > BatchSize

\* len(batch) >= batchSize
Full(b) == Len(b) >= BatchSize

\* batch = append(batch, record); a full batch is flushed and reset
Accumulate(record) ==
    LET b == Append(batch, record)
    IN IF Full(b)
       THEN Flush(b) /\ batch' = Reset(b, mongo'.call.err)
       ELSE batch' = b /\ written' = written /\ mongo' = [mongo EXCEPT !.call = NoCall]

LoopOut(op, flushed) == [op |-> op, flushed |-> flushed]

Exited == [persister EXCEPT !.pc = "exited", !.processStarted = FALSE]

\* the receive case of the loop's select. batchWriteLoop does not look at
\* the ok of the receive: from a closed, drained queue it takes zero records.
\* processLogs flushes and returns when the channel is closed and drained.
LoopReceive ==
    /\ persister.pc = "running"
    /\ IF inbox # <<>>
       THEN /\ Accumulate(Head(inbox))
            /\ inbox' = Tail(inbox)
            /\ persister' = persister
            /\ out' = LoopOut("receive", <<>>)
       ELSE /\ persister.closed
            /\ inbox' = inbox
            /\ IF persister.kind = "ip"
               THEN /\ Accumulate(ZeroRecord)
                    /\ persister' = persister
                    /\ out' = LoopOut("receive", <<>>)
               ELSE /\ Flush(batch)
                    /\ batch' = Reset(batch, mongo'.call.err)
                    /\ persister' = Exited
                    /\ out' = LoopOut("exit", batch)
    /\ UNCHANGED <<now, lockVars, banVars, ipVars, cfg, txs, cache, workers, evictor, nreq, mls>>

\* the ticker case: a non-empty batch is flushed and reset
LoopTick ==
    /\ persister.pc = "running"
    /\ Flush(batch)
    /\ batch' = Reset(batch, mongo'.call.err)
    /\ out' = LoopOut("ticker", batch)
    /\ UNCHANGED <<now, lockVars, banVars, ipVars, cfg, txs, cache, workers, evictor, nreq,
                   persister, inbox, mls>>

\* batchWriteLoop returns without writing what is left in its batch
LoopStopNoFlush ==
    /\ persister.kind = "ip"
    /\ persister.pc = "running"
    /\ persister.stopWriter
    /\ persister' = Exited
    /\ out' = LoopOut("exit", <<>>)
    /\ mongo' = [mongo EXCEPT !.call = NoCall]
    /\ UNCHANGED <<now, lockVars, banVars, ipVars, cfg, txs, cache, workers, evictor, nreq,
                   inbox, batch, written, mls>>

\* the stopWriter case of batchWriteLoop: flush what the batch holds, return
LoopStop ==
    /\ persister.kind = "ip"
    /\ persister.pc = "running"
    /\ persister.stopWriter
    /\ Flush(batch)
    /\ persister' = Exited
    /\ out' = LoopOut("exit", batch)
    /\ UNCHANGED <<now, lockVars, banVars, ipVars, cfg, txs, cache, workers, evictor, nreq,
                   inbox, batch, mls>>

\* MongoIPRecorder.Close closes stopWriter, then writeQueue: a second Close
\* closes a closed channel, which panics. MongoLogStore.Close closes logChan
\* when the loop was started and has not been closed.
Close ==
    /\ persister.kind \in PersisterKinds
    /\ IF persister.kind = "ip"
       THEN IF persister.closed
            THEN /\ persister' = persister
                 /\ out' = [op |-> "Close", ret |-> "panic"]
            ELSE /\ persister' = [persister EXCEPT !.stopWriter = TRUE, !.closed = TRUE]
                 /\ out' = [op |-> "Close", ret |-> "nil"]
       ELSE /\ out' = [op |-> "Close", ret |-> "nil"]
            /\ IF persister.processStarted
               THEN persister' = [persister EXCEPT !.closed = TRUE, !.processStarted = FALSE]
               ELSE persister' = persister
    /\ mongo' = [mongo EXCEPT !.call = NoCall]
    /\ UNCHANGED <<now, lockVars, banVars, ipVars, cfg, txs, cache, workers, evictor, nreq,
                   inbox, batch, written, mls>>

\* ------------------------------------------- the log store, started and closed
\* One MongoLogStore through its Start, Close and Store and the processLogs
\* goroutines Start launches. Start, Close and the deferred function of
\* processLogs run under processMutex, each as one step.
LogStoreRest ==
    UNCHANGED <<now, lockVars, banVars, ipVars, cfg, txs, cache, workers, evictor, nreq,
                persister, inbox, batch>>

Called(op, ret) == [op |-> op, ret |-> ret]

\* the processLogs goroutines that have not returned from their loop
LoopsRunning == {i \in 1..Len(mls.loops) : mls.loops[i].pc = "running"}

\* Start: nothing when processStarted is set; else set it and go processLogs
LogStart ==
    /\ mls.processStarted \/ Len(mls.loops) < MaxLoops
    /\ IF mls.processStarted
       THEN mls' = mls
       ELSE mls' = [mls EXCEPT !.processStarted = TRUE,
                               !.loops = Append(@, [pc |-> "running", batch |-> <<>>])]
    /\ out' = Called("Start", "nil")
    /\ Flush(<<>>)
    /\ LogStoreRest

\* Close: when processStarted is set, close(logChan) and clear the flag;
\* closing the closed channel panics before the flag is cleared
LogClose ==
    /\ IF ~mls.processStarted
       THEN mls' = mls /\ out' = Called("Close", "nil")
       ELSE IF mls.closed
       THEN mls' = mls /\ out' = Called("Close", "panic")
       ELSE /\ mls' = [mls EXCEPT !.closed = TRUE, !.processStarted = FALSE]
            /\ out' = Called("Close", "nil")
    /\ Flush(<<>>)
    /\ LogStoreRest

\* Store: the non-blocking send; a send on the closed channel panics
LogStore ==
    /\ mls.stored < MaxPush
    /\ IF mls.closed
       THEN /\ mls' = [mls EXCEPT !.stored = @ + 1]
            /\ out' = Called("Store", "panic")
            /\ Flush(<<>>)
       ELSE IF Len(mls.logChan) < ChannelSize
       THEN /\ mls' = [mls EXCEPT !.stored = @ + 1,
                                  !.logChan = Append(@, LogEntry(mls.stored + 1))]
            /\ out' = Called("Store", "nil")
            /\ Flush(<<>>)
       ELSE /\ mls' = [mls EXCEPT !.stored = @ + 1]
            /\ out' = Called("Store", "nil")
            /\ NoWrite(TRUE)
            /\ written' = written
    /\ LogStoreRest

\* the receive case of processLogs i: a log is appended and a full batch
\* flushed; on the closed, drained channel the batch is flushed and the loop
\* returns, its deferred function still to run
LogLoopReceive(i) ==
    /\ i \in LoopsRunning
    /\ IF mls.logChan # <<>>
       THEN LET b == Append(mls.loops[i].batch, Head(mls.logChan))
            IN /\ Flush(IF Full(b) THEN b ELSE <<>>)
               /\ mls' = [mls EXCEPT !.logChan = Tail(@),
                                     !.loops[i].batch =
                                         IF Full(b) THEN Reset(b, mongo'.call.err) ELSE b]
               /\ out' = LoopOut("receive", <<>>)
       ELSE /\ mls.closed
            /\ Flush(mls.loops[i].batch)
            /\ mls' = [mls EXCEPT !.loops[i] =
                           [pc |-> "deferred",
                            batch |-> Reset(mls.loops[i].batch, mongo'.call.err)]]
            /\ out' = LoopOut("exit", mls.loops[i].batch)
    /\ LogStoreRest

\* the ticker case of processLogs i
LogLoopTick(i) ==
    /\ i \in LoopsRunning
    /\ Flush(mls.loops[i].batch)
    /\ mls' = [mls EXCEPT !.loops[i].batch = Reset(@, mongo'.call.err)]
    /\ out' = LoopOut("ticker", mls.loops[i].batch)
    /\ LogStoreRest

\* the deferred function of processLogs i clears processStarted
LogLoopDeferred(i) ==
    /\ i \in 1..Len(mls.loops)
    /\ mls.loops[i].pc = "deferred"
    /\ mls' = [mls EXCEPT !.processStarted = FALSE, !.loops[i].pc = "exited"]
    /\ out' = LoopOut("deferred", <<>>)
    /\ Flush(<<>>)
    /\ LogStoreRest

\* ----------------------------------------------- the registry under its tasks
\* The goroutines that use one MemoryIPRecorder: the request handlers, which
\* call IsIPBlocked, RecordBlockedIP and GetBlockedIPs, and the cleanupLoop.
\* mu is the registry's sync.RWMutex; a task's position says which statement
\* of the method it runs next.
Handlers == {"handler1", "handler2"}

Cleaner == "cleaner"

Tasks == Handlers \cup {Cleaner}

IdleTask == [pc |-> "idle", ip |-> <<>>, reason |-> "", d |-> 0, t |-> 0]

\* no task uses the registry concurrently in the behaviour
LockIdle ==
    /\ mu = [writer |-> "none", readers |-> {}]
    /\ tasks = [t \in Tasks |-> IdleTask]

At(t, pc) == tasks[t].pc = pc

Goto(t, pc) == tasks' = [tasks EXCEPT ![t].pc = pc]

Return(t) == tasks' = [tasks EXCEPT ![t] = IdleTask]

\* r.mu.Lock() returns once nobody holds the lock
Lock(t) ==
    /\ mu.writer = "none" /\ mu.readers = {}
    /\ mu' = [mu EXCEPT !.writer = t]

\* r.mu.RLock() returns once no writer holds the lock
RLock(t) ==
    /\ mu.writer = "none"
    /\ mu' = [mu EXCEPT !.readers = @ \cup {t}]

\* RecordBlockedIP: r.mu.Lock()
RecordLock(t, ip, reason, d) ==
    /\ At(t, "idle")
    /\ Lock(t)
    /\ tasks' = [tasks EXCEPT ![t] = [IdleTask EXCEPT !.pc = "record", !.ip = ip,
                                                      !.reason = reason, !.d = d]]
    /\ UNCHANGED <<now, banVars, ipVars, persistVars, engineVars>>

\* RecordBlockedIP: the body, from time.Now() to the return
RecordWrite(t) ==
    /\ At(t, "record")
    /\ BanEffects(RecordBlockedIP(Recorder, tasks[t].ip, tasks[t].reason, tasks[t].d, now),
                  tasks[t].ip, tasks[t].reason, tasks[t].d)
    /\ Goto(t, "unlock")
    /\ UNCHANGED <<now, mu, ipVars, persistVars, engineVars>>

\* cleanupExpired: now := time.Now(), taken before the lock
SweepNow ==
    /\ At(Cleaner, "idle")
    /\ tasks' = [tasks EXCEPT ![Cleaner] = [IdleTask EXCEPT !.pc = "lock", !.t = now]]
    /\ UNCHANGED <<now, mu, banVars, ipVars, persistVars, engineVars>>

\* cleanupExpired: r.mu.Lock()
SweepLock ==
    /\ At(Cleaner, "lock")
    /\ Lock(Cleaner)
    /\ Goto(Cleaner, "sweep")
    /\ UNCHANGED <<now, banVars, ipVars, persistVars, engineVars>>

\* cleanupExpired: the body
SweepWrite ==
    /\ At(Cleaner, "sweep")
    /\ SetRecorder(cleanupExpired(Recorder, tasks[Cleaner].t).r)
    /\ lastOp' = [op |-> "sweep",
                  removed |-> cleanupExpired(Recorder, tasks[Cleaner].t).removed]
    /\ Goto(Cleaner, "unlock")
    /\ UNCHANGED <<now, mu, granted, ipVars, persistVars, engineVars>>

\* the deferred r.mu.Unlock() of RecordBlockedIP and cleanupExpired
Unlock(t) ==
    /\ At(t, "unlock")
    /\ mu' = [mu EXCEPT !.writer = "none"]
    /\ Return(t)
    /\ UNCHANGED <<now, banVars, ipVars, persistVars, engineVars>>

\* GetBlockedIPs: r.mu.RLock()
ListRLock(t) ==
    /\ At(t, "idle")
    /\ RLock(t)
    /\ Goto(t, "list")
    /\ UNCHANGED <<now, banVars, ipVars, persistVars, engineVars>>

\* GetBlockedIPs: the loop over the record map, then the deferred RUnlock
ListRead(t) ==
    /\ At(t, "list")
    /\ lastOp' = [op |-> "list", records |-> GetBlockedIPs(Recorder, now)]
    /\ mu' = [mu EXCEPT !.readers = @ \ {t}]
    /\ Return(t)
    /\ UNCHANGED <<now, blockedIPs, expiryItems, expiryHeap, granted,
                   ipVars, persistVars, engineVars>>

\* IsIPBlocked is entered: it takes no lock
CheckCall(t, ip) ==
    /\ At(t, "idle")
    /\ tasks' = [tasks EXCEPT ![t] = [IdleTask EXCEPT !.pc = "check", !.ip = ip]]
    /\ UNCHANGED <<now, mu, banVars, ipVars, persistVars, engineVars>>

\* the tasks that are inside a body that writes the maps and the heap
Writing == {w \in Tasks : tasks[w].pc \in {"record", "sweep"}}

\* the registry as the writer w leaves it
AsWrittenBy(w) ==
    IF At(w, "record")
    THEN RecordBlockedIP(Recorder, tasks[w].ip, tasks[w].reason, tasks[w].d, now).r
    ELSE cleanupExpired(Recorder, tasks[w].t).r

\* what the map read of IsIPBlocked can give: the answer from the map as it
\* is; and, when a writer is inside its body, the answer from the map as the
\* writer leaves it, or the runtime's fatal "concurrent map read and map
\* write", which the deferred recover does not catch
CheckOutcomes(t) ==
    {[fatal |-> FALSE, blocked |-> IsIPBlocked(Recorder, tasks[t].ip, now).blocked]}
    \cup UNION {{[fatal |-> FALSE,
                  blocked |-> IsIPBlocked(AsWrittenBy(w), tasks[t].ip, now).blocked],
                 [fatal |-> TRUE, blocked |-> FALSE]} : w \in Writing}

\* IsIPBlocked: the read of r.blockedIPs[ip] and the return
CheckRead(t) ==
    /\ At(t, "check")
    /\ \E o \in CheckOutcomes(t) :
          /\ lastOp' = [op |-> "check", ip |-> tasks[t].ip, blocked |-> o.blocked,
                        fatal |-> o.fatal, raced |-> Writing # {}]
          /\ IF o.fatal
             THEN tasks' = [x \in Tasks |-> [IdleTask EXCEPT !.pc = "crashed"]]
             ELSE Return(t)
    /\ UNCHANGED <<now, mu, blockedIPs, expiryItems, expiryHeap, granted,
                   ipVars, persistVars, engineVars>>

\* the clock advances while the process lives
TaskTick == Tick /\ \A t \in Tasks : ~At(t, "crashed")

TasksNext ==
    \/ TaskTick
    \/ \E t \in Handlers, ip \in IPs : RecordLock(t, ip, "scan", MaxDur)
    \/ \E t \in Handlers : RecordWrite(t)
    \/ SweepNow
    \/ SweepLock
    \/ SweepWrite
    \/ \E t \in Tasks : Unlock(t)
    \/ \E t \in Handlers : ListRLock(t)
    \/ \E t \in Handlers : ListRead(t)
    \/ \E t \in Handlers, ip \in IPs : CheckCall(t, ip)
    \/ \E t \in Handlers : CheckRead(t)

\* ---- the engine's specification
\* the registry as the flow controller left it: one address is banned, as
\* RecordBlockedIP(ip1, "bruteforce", 1) at time 0 leaves an empty registry
SeededRecorder ==
    [blockedIPs |-> (<<"ip1">> :> NewRecord(<<"ip1">>, "bruteforce", 0, 1)),
     expiryItems |-> (<<"ip1">> :> [expiresAt |-> 1, index |-> 0]),
     expiryHeap |-> << <<"ip1">> >>]

SeededInit ==
    /\ blockedIPs = SeededRecorder.blockedIPs
    /\ expiryItems = SeededRecorder.expiryItems
    /\ expiryHeap = SeededRecorder.expiryHeap
    /\ lastOp = [op |-> "init"]
    /\ granted = EmptyMap

Init ==
    /\ now = 0
    /\ SeededInit
    /\ IPIdle
    /\ EngineInit
    /\ PersistIdle
    /\ LockIdle

Next ==
    \/ Tick
    \/ \E req \in EngineRequests : HandleRequest(req)
    \/ \E w \in Workers, id \in ResponseIDs \cup DOMAIN cache : ResponseGet(w, id)
    \/ \E w \in Workers : ResponseRemove(w)
    \/ \E w \in Workers : ResponseTryLock(w)
    \/ \E w \in Workers : ResponseProcess(w)
    \/ \E id \in DOMAIN cache : EvictDelete(id)
    \/ EvictCallback

Spec == Init /\ [][Next]_vars

\* the clock advances, the eviction goroutine keeps sweeping, and a handler
\* that has started runs to its return
FairSpec ==
    /\ Spec
    /\ WF_vars(Tick)
    /\ WF_vars(\E id \in DOMAIN cache : EvictDelete(id))
    /\ WF_vars(EvictCallback)
    /\ \A w \in Workers :
         WF_vars(ResponseRemove(w) \/ ResponseTryLock(w) \/ ResponseProcess(w))

\* ---- the specifications of the registry and of the IP derivation
DeriveIP ==
    /\ ipResult = <<"unset">>
    /\ ipResult' = getRealClientIP(RequestOf(ipReq))
    /\ UNCHANGED <<now, banVars, ipReq, engineVars, persistVars, lockVars>>

InitIP ==
    /\ now = 0
    /\ BanInit
    /\ IPInit
    /\ EngineIdle
    /\ PersistIdle
    /\ LockIdle

SpecIP == InitIP /\ [][DeriveIP]_vars

InitForwarded ==
    /\ now = 0
    /\ BanInit
    /\ ipReq \in ForwardedInputs
    /\ ipResult = <<"unset">>
    /\ EngineIdle
    /\ PersistIdle
    /\ LockIdle

SpecForwarded == InitForwarded /\ [][DeriveIP]_vars

InitLookup ==
    /\ now = 0
    /\ BanInit
    /\ ipReq \in LookupInputs
    /\ ipResult = <<"unset">>
    /\ EngineIdle
    /\ PersistIdle
    /\ LockIdle

SpecLookup == InitLookup /\ [][LookupHeader]_vars

InitBan ==
    /\ now = 0
    /\ BanInit
    /\ IPIdle
    /\ EngineIdle
    /\ PersistIdle
    /\ LockIdle

\* a persister from its construction on: records are pushed, the loop drains
\* them in batches, Close shuts it down
InitPersist ==
    /\ now = 0
    /\ BanInit
    /\ IPIdle
    /\ EngineIdle
    /\ PersistInit
    /\ LockIdle

PersistNext ==
    \/ \E ip \in PushedIPs, reason \in Reasons : MongoRecordBlockedIP(ip, reason, 1)
    \/ Store
    \/ LoopReceive
    \/ LoopTick
    \/ LoopStop
    \/ Close

SpecPersist == InitPersist /\ [][PersistNext]_vars

\* the loop is a goroutine that keeps running, and Go's select picks among
\* the ready cases at random, so a case that stays ready is taken eventually
FairSpecPersist ==
    /\ SpecPersist
    /\ WF_vars(LoopReceive)
    /\ WF_vars(LoopStop)

\* the loops also take their ticker case again and again: the ticker fires
\* every few seconds for as long as the loop runs
FairSpecDrain ==
    /\ FairSpecPersist
    /\ WF_vars(LoopTick)

\* a log store from its construction on, started, closed and started again
\* while logs are stored and its loops run
InitLogStore ==
    /\ now = 0
    /\ BanInit
    /\ IPIdle
    /\ EngineIdle
    /\ PersistIdle
    /\ LockIdle

LogStoreNext ==
    \/ LogStart
    \/ LogClose
    \/ LogStore
    \/ \E i \in 1..MaxLoops : LogLoopReceive(i)
    \/ \E i \in 1..MaxLoops : LogLoopTick(i)
    \/ \E i \in 1..MaxLoops : LogLoopDeferred(i)

SpecLogStore == InitLogStore /\ [][LogStoreNext]_vars

SpecBan == InitBan /\ [][BanNext]_vars

\* -------------------------------------------------------- engine properties
\* the transactions a cache entry, a running HandleResponse or the eviction
\* callback still refers to
Held ==
    {cache[id].tx : id \in DOMAIN cache}
        \cup {workers[w].t : w \in {v \in Workers : workers[v].pc # "idle"}}
        \cup (IF evictor.pc = "callback" THEN {evictor.t} ELSE {})

\* s occurs in seq as a contiguous run
Contains(seq, s) ==
    \E i \in 0..(Len(seq) - Len(s)) : SubSeq(seq, i + 1, i + Len(s)) = s

\* C1: under every interleaving of HandleResponse calls and the eviction
\* callback, a transaction is finalized (ProcessLogging + Close) at most once:
\* only the party whose TryLock succeeds finalizes, and the guard, once taken,
\* is never released.
C1_FinalizedAtMostOnce ==
    /\ [](\A t \in 1..Len(txs) :
            /\ txs[t].finalized <= 1
            /\ \A w \in Workers : (workers[w].pc = "process" /\ workers[w].t = t) =>
                    /\ txs[t].locked /\ txs[t].finalized = 0
                    /\ \A v \in Workers \ {w} :
                            ~(workers[v].pc = "process" /\ workers[v].t = t))
    /\ [][\A t \in 1..Len(txs) :
            /\ txs[t].locked => txs'[t].locked
            /\ txs'[t].finalized > txs[t].finalized =>
                    \/ /\ ~txs[t].locked /\ txs'[t].locked
                       /\ evictor.pc = "callback" /\ evictor.t = t
                    \/ /\ txs[t].locked
                       /\ \E w \in Workers :
                            /\ workers[w].pc = "process" /\ workers[w].t = t
                            /\ workers'[w].pc = "idle"
         ]_vars

\* the eviction callback lost the guard of a transaction a response finalized
C1_Witness ==
    /\ out.op = "evict"
    /\ out.calls = <<"TryLock:fail">>
    /\ \E t \in 1..Len(txs) : txs[t].locked /\ txs[t].finalized = 1
    /\ \E w \in Workers : workers[w].pc = "trylock"

\* C2: every transaction HandleRequest deferred into the cache is finalized
\* eventually: while it is not finalized, a cache entry, a running
\* HandleResponse or the eviction callback still holds it and will close it.
C2_NeverOrphaned ==
    \A t \in 1..Len(txs) : txs[t].finalized = 0 => t \in Held

\* C2, as a property of behaviours: under fairness of the clock, the eviction
\* sweep and the running handlers, every deferred transaction is finalized.
C2_EventuallyFinalized ==
    \A t \in 1..MaxReq :
        [](Len(txs) >= t => <>(Len(txs) >= t /\ txs[t].finalized >= 1))

\* C3: when HandleRequest returns after opening a transaction, either it
\* returns no error with response inspection enabled, and the transaction is in
\* the cache under its id with the configured TTL and not finalized; or the
\* transaction is finalized and not in the cache. Never both, never neither.
C3_FinalizeOrDefer ==
    [][(nreq' = nreq + 1 /\ Len(txs') = Len(txs) + 1) =>
          LET t == Len(txs')
              id == txs'[t].id
              cached == \E k \in DOMAIN cache' : cache'[k].tx = t
          IN /\ out'.tx = t /\ out'.id = id
             /\ IF out'.err = "nil" /\ cfg.ResponseCheck
                THEN /\ id \in DOMAIN cache'
                     /\ cache'[id] = [tx |-> t, expiration |-> now + TransactionTTL]
                     /\ txs'[t].finalized = 0
                     /\ "Close" \notin SeqToSet(out'.calls)
                ELSE /\ ~cached
                     /\ cache' = cache
                     /\ txs'[t].finalized = 1
                     /\ "Close" \in SeqToSet(out'.calls)
      ]_vars

\* a passing request was deferred into the cache
C3_Witness ==
    /\ out.op = "HandleRequest" /\ out.err = "nil" /\ out.tx > 0
    /\ cfg.ResponseCheck
    /\ out.id \in DOMAIN cache /\ cache[out.id].tx = out.tx
    /\ txs[out.tx].finalized = 0

\* C4: with response inspection enabled, HandleResponse for a non-empty id
\* that is not in the cache returns no error and has no effect: no transaction
\* is finalized, the cache is unchanged, the flow-control gate is not called.
C4_MissIsNoOp ==
    [][\A w \in Workers, id \in ResponseIDs :
          (cfg.ResponseCheck /\ id # <<>> /\ id \notin DOMAIN cache
              /\ ResponseGet(w, id))
          => /\ out'.err = "nil"
             /\ SeqToSet(out'.calls) \cap
                    {"RecordError", "RecordAttack", "ProcessLogging", "Close"} = {}
             /\ UNCHANGED <<txs, cache>>
      ]_vars

\* a response for an unknown id arrived while another transaction was cached
C4_Witness ==
    /\ out.op = "HandleResponse" /\ out.calls = <<"Get:miss">> /\ out.err = "nil"
    /\ cfg.ResponseCheck
    /\ DOMAIN cache # {}

\* a HandleResponse that holds a transaction whose guard is already taken
LosesGuard(w) ==
    /\ workers[w].pc = "trylock"
    /\ txs[workers[w].t].locked
    /\ ResponseTryLock(w)

\* C5 (as the code has it): a HandleResponse that finds the transaction but
\* fails to acquire its guard does nothing further (the transaction, the cache
\* and the flow-control gate are left alone) and returns an error.
C5_LostGuardReturnsError ==
    [][\A w \in Workers : LosesGuard(w) =>
          /\ out'.err = "error"
          /\ out'.calls = <<"TryLock:fail">>
          /\ workers'[w] = IdleWorker
          /\ UNCHANGED <<txs, cache>>
      ]_vars

\* C5 (as stated): a HandleResponse that fails to acquire the guard is a benign
\* no-op: it does nothing further and surfaces no error to the caller.
C5_LostGuardIsSilent ==
    [][\A w \in Workers : LosesGuard(w) =>
          /\ out'.err = "nil"
          /\ out'.calls = <<"TryLock:fail">>
          /\ UNCHANGED <<txs, cache>>
      ]_vars

\* a response lost the guard to the eviction callback
C5_Witness ==
    /\ out.op = "HandleResponse" /\ out.calls = <<"TryLock:fail">>
    /\ \E t \in 1..Len(txs) : txs[t].locked /\ txs[t].finalized = 1
    /\ \A w \in Workers : workers[w].pc = "idle"

\* C6: when the derived client IP has an active ban (expiry in the future),
\* HandleRequest returns a deny with status 403 whose message contains the ban
\* reason and the RFC3339 expiry, and nothing else happens: no CheckVisit, no
\* micro-engine match, no transaction, nothing put in the cache.
C6_BannedIsDenied ==
    [][(nreq' = nreq + 1 /\ cfg.ipRecorder
            /\ out'.realIP \in DOMAIN blockedIPs
            /\ blockedIPs[out'.realIP].BlockedUntil > now) =>
          LET record == blockedIPs[out'.realIP]
          IN /\ out'.err = "deny"
             /\ out'.status = Status403
             /\ Contains(out'.data, <<record.Reason>>)
             /\ Contains(out'.data, FormatRFC3339(record.BlockedUntil))
             /\ out'.calls = <<"IsIPBlocked">>
             /\ out'.tx = 0
             /\ UNCHANGED <<txs, cache>>
      ]_vars

\* a request whose X-Forwarded-For names the banned address was denied
C6_Witness ==
    /\ out.op = "HandleRequest" /\ out.err = "deny" /\ out.status = Status403
    /\ out.realIP = <<"ip1">>
    /\ out.data = <<"IP has been blocked until ", "1970-01-01T00:00:", "0", "1", "Z",
                    " due to ", "bruteforce">>
    /\ now = 0


\* the registry from its construction on, used by its tasks concurrently
InitTasks ==
    /\ now = 0
    /\ BanInit
    /\ IPIdle
    /\ EngineIdle
    /\ PersistIdle
    /\ LockIdle

SpecTasks == InitTasks /\ [][TasksNext]_vars

\* ------------------------------------------------------ registry properties
HeapValue == [heap |-> expiryHeap, items |-> expiryItems]

\* no entry expires earlier than its parent
MinHeapOrdered(hp) ==
    \A j \in 1..(Len(hp.heap) - 1) : ~Less(hp, j, (j - 1) \div 2)

ExpiryOf(r, ip) == r.blockedIPs[ip].BlockedUntil

\* C7: after RecordBlockedIP(ip, reason, d) with d > 0, and while the record has
\* been neither capacity-evicted nor re-banned, IsIPBlocked(ip) answers true
\* with the stored reason and expiry at every time up to the expiry and false
\* at every time after it, whether or not the sweep has removed the record.
C7_BlockedUntilExpiry ==
    \A ip \in DOMAIN granted :
        LET g == granted[ip]
            res == IsIPBlocked(Recorder, ip, now)
        IN IF now <= g.until
           THEN /\ res.blocked
                /\ res.record.Reason = g.reason
                /\ res.record.BlockedUntil = g.until
           ELSE ~res.blocked

\* C8: RecordBlockedIP on an IP that already has a record replaces reason and
\* expiry in place and repositions the existing heap entry; the record map and
\* the heap keep their size and their IPs, no other record changes or is
\* evicted, and no IP ever has two heap entries.
C8_RebanInPlace ==
    /\ [](Cardinality(SeqToSet(expiryHeap)) = Len(expiryHeap))
    /\ [][(lastOp'.op = "ban" /\ lastOp'.existed) =>
            LET ip == lastOp'.ip
            IN /\ DOMAIN blockedIPs' = DOMAIN blockedIPs
               /\ DOMAIN expiryItems' = DOMAIN expiryItems
               /\ Len(expiryHeap') = Len(expiryHeap)
               /\ SeqToSet(expiryHeap') = SeqToSet(expiryHeap)
               /\ blockedIPs'[ip].Reason = lastOp'.reason
               /\ blockedIPs'[ip].BlockedUntil = lastOp'.until
               /\ expiryItems'[ip].expiresAt = lastOp'.until
               /\ expiryHeap'[expiryItems'[ip].index + 1] = ip
               /\ MinHeapOrdered([heap |-> expiryHeap', items |-> expiryItems'])
               /\ lastOp'.expired = <<>> /\ lastOp'.forced = <<>>
               /\ \A o \in (DOMAIN blockedIPs) \ {ip} :
                    /\ blockedIPs'[o] = blockedIPs[o]
                    /\ expiryItems'[o].expiresAt = expiryItems[o].expiresAt
      ]_vars

\* a re-ban that moved the expiry of an entry that is not alone in the heap
C8_Witness ==
    /\ lastOp.op = "ban" /\ lastOp.existed
    /\ Len(expiryHeap) >= 2
    /\ expiryItems[lastOp.ip].index > 0

\* C9: when the registry is full and RecordBlockedIP is called for a new IP,
\* every entry removed to make room expires no later than every earlier entry
\* that remains; a forcibly evicted (unexpired) entry is a single one with the
\* globally earliest expiry.
C9_EvictsEarliest ==
    [][(lastOp'.op = "ban" /\ ~lastOp'.existed
            /\ Cardinality(DOMAIN blockedIPs) >= Capacity) =>
            LET removed == SeqToSet(lastOp'.expired) \cup SeqToSet(lastOp'.forced)
                remain == (DOMAIN blockedIPs) \ removed
            IN /\ removed # {}
               /\ removed \subseteq DOMAIN blockedIPs
               /\ DOMAIN blockedIPs' = remain \cup {lastOp'.ip}
               /\ \A x \in removed, y \in remain :
                    ExpiryOf(Recorder, x) <= ExpiryOf(Recorder, y)
               /\ lastOp'.forced # <<>> =>
                    /\ Len(lastOp'.forced) = 1
                    /\ lastOp'.expired = <<>>
                    /\ \A y \in DOMAIN blockedIPs :
                         ExpiryOf(Recorder, lastOp'.forced[1]) <= ExpiryOf(Recorder, y)
      ]_vars

\* a forced eviction from a registry whose entries do not all expire together
C9_Witness ==
    /\ lastOp.op = "ban" /\ ~lastOp.existed
    /\ lastOp.forced # <<>>
    /\ \E x \in DOMAIN blockedIPs : ExpiryOf(Recorder, x) # lastOp.until
    /\ Cardinality(DOMAIN blockedIPs) = Capacity

\* what the header lines say, read off their structure: the first line that
\* carries the header, and the IP that line yields
LinesNamed(lines, header) ==
    {i \in 1..Len(lines) :
        lines[i].kind = "header" /\ <<ToLower(lines[i].name)>> = header}

Min(S) == CHOOSE x \in S : \A y \in S : x <= y

YieldOf(lines, header) ==
    IF LinesNamed(lines, header) = {} THEN <<>>
    ELSE LET l == lines[Min(LinesNamed(lines, header))]
         IN IF header \in {<<"x-forwarded-for">>, <<"x-original-forwarded-for">>,
                           <<"forwarded">>}
            THEN IF Len(l.elems) > 0 /\ l.elems[1] # "" THEN <<l.elems[1]>> ELSE <<>>
            ELSE RenderList(l.elems)

\* the priority order the claim fixes
ClaimedOrder ==
    << <<"x-forwarded-for">>, <<"x-real-ip">>, <<"true-client-ip">>,
       <<"cf-connecting-ip">>, <<"fastly-client-ip">>, <<"x-client-ip">>,
       <<"x-original-forwarded-for">>, <<"forwarded">>, <<"x-cluster-client-ip">> >>

Yielding(lines) ==
    {i \in 1..Len(ClaimedOrder) : YieldOf(lines, ClaimedOrder[i]) # <<>>}

ForwardedOf(lines) ==
    lines[CHOOSE i \in 1..Len(lines) : lines[i].kind = "forwarded"]

RequestStep == nreq' = nreq + 1

\* C12: the id of a request is the caller's, or a generated non-empty one when
\* the message carries none, and it is written to the response metadata
\* exactly when the handler opened the transaction and the write succeeded,
\* whatever the matching engine decides afterwards; a request denied by the
\* ban lookup, by flow control or by the micro engine returns before the write
\* and carries no id in its metadata.
C12_IdEchoedOnceOpened ==
    [][RequestStep =>
          /\ out'.id # <<>>
          /\ out'.req.ID # <<>> => out'.id = out'.req.ID
          /\ out'.req.ID = <<>> => out'.id = GeneratedID(nreq')
          /\ IF Contains(out'.calls, <<"NewTransaction", "SetString">>)
             THEN out'.metaId = out'.id /\ txs'[out'.tx].id = out'.id
             ELSE out'.metaId = <<>>
          /\ out'.tx = 0 <=> ~Contains(out'.calls, <<"NewTransaction">>)
          /\ out'.status \in {Status403, Status429} => out'.tx = 0
          /\ out'.status = EngineStatus => out'.metaId = out'.id
      ]_vars

\* C12 as stated: every request-phase message has its id in the metadata
C12_IdAlwaysEchoed ==
    [][RequestStep => out'.metaId = out'.id /\ out'.id # <<>>]_vars

\* a request without id was denied by the matching engine after its generated
\* id was written to the metadata
C12_Witness ==
    /\ out.op = "HandleRequest" /\ out.err = "deny" /\ out.status = EngineStatus
    /\ out.id = GeneratedID(nreq)
    /\ out.metaId = out.id
    /\ Contains(out.calls, <<"SetString", "ProcessConnection">>)

\* how often the handler made the call
Count(calls, c) == Cardinality({i \in 1..Len(calls) : calls[i] = c})

\* the last call the handler made
LastCall(calls) == calls[Len(calls)]

\* the ban lookup of the step answers that the address is banned
BannedNow(ip) == cfg.ipRecorder /\ IsIPBlocked(Recorder, ip, now).blocked

\* C15: for a request whose IP is not banned, when the flow-control gate is
\* configured CheckVisit is called; when it returns not-allowed without error
\* HandleRequest denies with status 429 and "Too many requests" and opens no
\* transaction; when it returns an error (or allowed) the request goes on to
\* the next step, the micro engine or the transaction. 429 is the status of
\* no denial that HandleRequest issues for the ban or the micro engine (403).
C15_FlowControlGate ==
    [][RequestStep =>
          /\ (cfg.flowController /\ ~BannedNow(out'.realIP)) <=> out'.visit # "none"
          /\ out'.visit # "none" => Count(out'.calls, "CheckVisit") = 1
          /\ out'.visit = "denied" =>
                /\ out'.err = "deny" /\ out'.status = Status429
                /\ out'.data = <<"Too many requests">>
                /\ LastCall(out'.calls) = "CheckVisit"
                /\ out'.tx = 0 /\ UNCHANGED <<txs, cache>>
          /\ out'.visit \in {"allowed", "error"} =>
                Contains(out'.calls, <<"CheckVisit",
                                       IF cfg.ruleEngine THEN "MatchRequest"
                                       ELSE "NewTransaction">>)
          /\ (out'.visit = "error" /\ out'.match \in {"none", "pass", "error"}) =>
                out'.tx = Len(txs) + 1
          /\ out'.status = Status429 <=> out'.visit = "denied"
          /\ (out'.err = "deny" /\ out'.tx = 0 /\ out'.visit # "denied") =>
                out'.status = Status403
      ]_vars

\* the gate refused a request that was not banned: 429 and no transaction
C15_Witness ==
    /\ out.op = "HandleRequest" /\ out.visit = "denied"
    /\ out.status = Status429 /\ out.tx = 0
    /\ out.calls = <<"IsIPBlocked", "CheckVisit">>

\* C16: when response inspection is disabled, HandleResponse returns an error
\* for every message, whatever its id, before it touches anything: the cache,
\* the transactions and the handlers' state stay as they were, and no
\* transaction is ever waiting in the cache.
C16_DisabledResponseIsError ==
    [][\A w \in Workers, id \in ResponseIDs :
          (~cfg.ResponseCheck /\ ResponseGet(w, id)) =>
              /\ out' = Returned("error", <<>>)
              /\ UNCHANGED <<cache, txs, workers, evictor>>
              /\ cache = EmptyMap
              /\ \A t \in 1..Len(txs) : txs[t].finalized = 1
      ]_vars

\* with inspection disabled a response was refused while a transaction of an
\* earlier request exists
C16_Witness ==
    /\ ~cfg.ResponseCheck
    /\ out = Returned("error", <<>>)
    /\ Len(txs) > 0

\* the four checks of HandleRequest, in the order of the code
RequestSteps == <<"IsIPBlocked", "CheckVisit", "MatchRequest", "NewTransaction">>

\* the checks among the handler's calls, in the order it made them
StepsOf(calls) == SelectSeq(calls, LAMBDA c : c \in SeqToSet(RequestSteps))

\* the checks the configuration has, in the order of the code
ConfiguredSteps ==
    SelectSeq(RequestSteps,
              LAMBDA c : \/ c = "IsIPBlocked" /\ cfg.ipRecorder
                         \/ c = "CheckVisit" /\ cfg.flowController
                         \/ c = "MatchRequest" /\ cfg.ruleEngine
                         \/ c = "NewTransaction")

\* C18: within one HandleRequest call the configured checks run in the order
\* ban lookup, CheckVisit, micro-rule match, matching-engine transaction, each
\* at most once, and the handler stops at the first one that denies: a banned
\* address sees the ban lookup only, a request refused by the gate never
\* reaches the micro engine, one blocked by the micro engine never has a
\* transaction opened, and a request denied by none of them has all of them.
C18_FixedOrder ==
    [][RequestStep =>
          LET steps == StepsOf(out'.calls)
              n == Len(steps)
              banned == BannedNow(out'.realIP)
              refused == out'.visit = "denied"
              blocked == out'.match \in {"block", "block-nil-rule"}
          IN /\ n >= 1 /\ steps = SubSeq(ConfiguredSteps, 1, n)
             /\ banned => steps = <<"IsIPBlocked">>
             /\ refused => steps[n] = "CheckVisit"
             /\ blocked => steps[n] = "MatchRequest"
             /\ steps[n] # "NewTransaction" =>
                    /\ banned \/ refused \/ blocked
                    /\ out'.tx = 0 /\ UNCHANGED <<txs, cache>>
             /\ steps[n] = "NewTransaction" =>
                    out'.tx = Len(txs) + 1 /\ Len(txs') = Len(txs) + 1
      ]_vars

\* the micro engine blocked a request after the ban lookup and the gate let it
\* through: no transaction was opened
C18_Witness ==
    /\ out.op = "HandleRequest" /\ out.match = "block" /\ out.visit = "allowed"
    /\ StepsOf(out.calls) = <<"IsIPBlocked", "CheckVisit", "MatchRequest">>
    /\ out.tx = 0

\* the step's request went through the micro engine
MicroStep == RequestStep /\ out'.match # "none"

\* what a step through the micro engine did, by what MatchRequest returned
MicroBlockEffects ==
    /\ Count(out'.calls, "MatchRequest") = 1
    /\ out'.match \in {"block", "block-nil-rule"} =>
          /\ out'.err = "deny" /\ out'.status = Status403
          /\ out'.tx = 0 /\ UNCHANGED <<txs, cache>>
          /\ Count(out'.calls, "RecordAttack") = (IF cfg.flowController THEN 1 ELSE 0)
          /\ Count(out'.calls, "Store:micro:rule")
                = (IF out'.match = "block" THEN 1 ELSE 0)
          /\ Count(out'.calls, "Store:micro:whitelist block")
                = (IF out'.match = "block-nil-rule" THEN 1 ELSE 0)
    /\ out'.match \in {"error", "pass"} =>
          /\ Contains(out'.calls, <<"MatchRequest", "NewTransaction">>)
          /\ out'.tx = Len(txs) + 1
          /\ Count(out'.calls, "Store:micro:rule") = 0
          /\ Count(out'.calls, "Store:micro:whitelist block") = 0

\* C19: when the micro engine reports shouldBlock without error, HandleRequest
\* records exactly one attack on the flow-control gate (when it is
\* configured), hands exactly one log entry to the log store, built from the
\* rule or from the "whitelist block" sentinel when the rule is nil, and
\* denies with status 403 without opening a transaction; when the engine
\* returns an error, the request is not denied by this step, no attack is
\* recorded and no log entry is written before the transaction is opened.
C19_MicroBlock == [][MicroStep => MicroBlockEffects]_vars

\* the same when the application has a log store
C19_MicroBlockWithLogStore == [][(MicroStep /\ cfg.logStore) => MicroBlockEffects]_vars

\* the step opened a transaction on an engine whose rule evaluation is off,
\* and the id was written to the metadata
RuleEngineOffStep ==
    /\ RequestStep /\ cfg.ruleEngineOff
    /\ Contains(out'.calls, <<"NewTransaction", "SetString">>)

\* the calls that feed the transaction with the request
FeedCalls ==
    {"ProcessConnection", "ProcessURI", "AddRequestHeader", "ProcessHeaders",
     "WriteBody", "ProcessBody"}

\* the transaction of the step was finalized before the handler returned
FinalizedInStep ==
    /\ Contains(out'.calls, <<"SetString", "ProcessLogging", "Close">>)
    /\ txs'[out'.tx].finalized = 1
    /\ cache' = cache

\* the transaction of the step was put in the cache, not finalized
DeferredInStep ==
    /\ LastCall(out'.calls) = "SetWithExpiration"
    /\ Count(out'.calls, "Close") = 0
    /\ txs'[out'.tx].finalized = 0
    /\ cache'[out'.id] = [tx |-> out'.tx, expiration |-> now + TransactionTTL]

PushStep == persister'.pushes = persister.pushes + 1

\* C13: while a persister is open, a push is always possible and returns nil
\* without waiting for the loop: with room in the inbox the record is
\* appended, with a full inbox the incoming record is dropped and the queued
\* records stay as they were; the push never touches the loop's batch; and
\* for a ban the in-memory registry holds the new record either way.
C13_PushNeverBlocks ==
    /\ [](persister.pushes < MaxPush =>
            /\ persister.kind = "log" => ENABLED Store
            /\ persister.kind = "ip" =>
                  \A ip \in PushedIPs : ENABLED MongoRecordBlockedIP(ip, "bruteforce", 1))
    /\ [][(PushStep /\ ~persister.closed) =>
             /\ out'.ret = "nil"
             /\ IF Len(inbox) < ChannelSize
                THEN inbox' = Append(inbox, out'.record) /\ ~out'.dropped
                ELSE inbox' = inbox /\ out'.dropped
             /\ UNCHANGED <<batch, written>>
             /\ persister.kind = "ip" =>
                   /\ out'.record.IP \in DOMAIN blockedIPs'
                   /\ blockedIPs'[out'.record.IP] = out'.record
                   /\ IsIPBlocked(Recorder', out'.record.IP, now).blocked
         ]_vars

\* the ban of ip2 was dropped at a full inbox that still holds the two bans
\* of ip1 queued before it, and ip2 is banned in memory
C13_Witness ==
    /\ out = Pushed("RecordBlockedIP", "nil", NewRecord(<<"ip2">>, "bruteforce", 0, 1), TRUE)
    /\ inbox = <<NewRecord(<<"ip1">>, "bruteforce", 0, 1),
                 NewRecord(<<"ip1">>, "bruteforce", 0, 1)>>
    /\ <<"ip2">> \in DOMAIN blockedIPs

\* C14: the loop of a persister exits only after its shutdown, and the step
\* on which it exits hands the whole batch it has accumulated to the store;
\* and once a persister is shut down its loop does exit.
C14_FinalFlushThenExit ==
    /\ [][(persister.pc = "running" /\ persister'.pc = "exited") =>
             /\ persister.closed
             /\ written' = written \cup SeqToSet(batch)
             /\ out' = LoopOut("exit", batch)
         ]_vars
    /\ (persister.closed ~> persister.pc = "exited")

\* a loop has exited on a final flush of a batch that was not empty
C14_Witness ==
    /\ persister.pc = "exited" /\ persister.closed
    /\ out.op = "exit" /\ out.flushed # <<>>
    /\ SeqToSet(out.flushed) \subseteq written

\* ------------------------------------------------------ header lookup
\* the lines of the block that carry the header, whatever the case of the name
LinesCarrying(lines, target) ==
    {i \in 1..Len(lines) :
        lines[i].kind = "header" /\ ToLower(lines[i].name) = ToLower(target)}

ProcessStep == \E w \in Workers : workers[w].pc = "process" /\ workers'[w].pc = "idle"

\* the step is a HandleRequest that finalized the transaction it opened
RequestFinalizes == RequestStep /\ out'.tx > 0 /\ txs'[out'.tx].finalized = 1

\* the deferred function ran the logging hook and the release, last
HookAndRelease ==
    /\ Count(out'.calls, "ProcessLogging") = 1 /\ Count(out'.calls, "Close") = 1
    /\ Contains(out'.calls, <<"ProcessLogging", "Close">>)
    /\ LastCall(out'.calls) = "Close"
    /\ IF RequestStep THEN txs'[out'.tx].finalized = 1
       ELSE txs'[out'.tx].finalized = txs[out'.tx].finalized + 1

\* what the finalization of an interrupted transaction does
InterruptedEffects ==
    /\ Count(out'.calls, "RecordAttack") = (IF cfg.flowController THEN 1 ELSE 0)
    /\ Count(out'.calls, "Store:firewall")
          = (IF out'.matched /\ cfg.logStore THEN 1 ELSE 0)

\* C21: whenever the request path or the response path finalizes a
\* transaction, the logging hook is invoked and the transaction released; when
\* the transaction is interrupted, one attack is recorded at the flow-control
\* gate if there is one, whether or not there is a log store, and one
\* security log entry is handed to the log store if rules fired.
C21_InterruptedFinalize ==
    [][(RequestFinalizes \/ ProcessStep) =>
          /\ HookAndRelease
          /\ out'.interrupted => InterruptedEffects
      ]_vars

\* the same for an application that has a log store
C21_InterruptedFinalizeWithLogStore ==
    [][((RequestFinalizes \/ ProcessStep) /\ cfg.logStore) =>
          /\ HookAndRelease
          /\ out'.interrupted => InterruptedEffects
      ]_vars

\* the request's header block has a non-blank line without a colon
Malformed(headers) ==
    \E i \in 1..Len(ScanLines(headers)) :
        LET line == TrimSpace(ScanLines(headers)[i])
        IN Len(line) > 0 /\ Index(line, ":") = 0

ExitPath(o) ==
    CASE o.err = "nil" /\ Count(o.calls, "ProcessBody") = 0 -> "rule engine off"
      [] o.err = "nil" -> "completed"
      [] o.err = "error" /\ Count(o.calls, "ProcessHeaders") = 0 -> "header parse error"
      [] o.err = "error" -> "engine error"
      [] o.err = "deny" /\ Count(o.calls, "WriteBody") = 0 -> "interrupted at headers"
      [] OTHER -> "interrupted at body"

\* C23: a HandleResponse that holds a transaction's guard holds it alone, the
\* entry is already out of the cache, and on whatever path the call returns
\* (completion, rule engine off, header parse error, engine error,
\* interruption at headers or body) its return finalizes the transaction,
\* which was not finalized before and so is finalized exactly once.
C23_GuardHolderFinalizes ==
    [][ProcessStep =>
          LET t == out'.tx
          IN /\ txs[t].locked /\ txs[t].finalized = 0
             /\ \A id \in DOMAIN cache : cache[id].tx # t
             /\ txs'[t].finalized = 1
             /\ HookAndRelease
             /\ cache' = cache
             /\ ExitPath(out') = "rule engine off" <=> cfg.ruleEngineOff
             /\ ExitPath(out') = "header parse error" <=>
                   (~cfg.ruleEngineOff /\ Malformed(out'.headers))
      ]_vars

\* a response whose header block does not parse: error returned, transaction
\* finalized once, nothing left in the cache
C23_Witness ==
    /\ out.op = "HandleResponse" /\ out.err = "error"
    /\ Count(out.calls, "Close") = 1
    /\ ExitPath(out) = "header parse error"
    /\ txs[out.tx].finalized = 1 /\ txs[out.tx].locked
    /\ \A id \in DOMAIN cache : cache[id].tx # out.tx

\* the step is a return of HandleResponse, on any path
ResponseReturns == out'.op = "HandleResponse"

\* C24: HandleResponse calls RecordError only in a call that holds the
\* finalization guard, there exactly once and before anything is fed to the
\* matching engine, when the status is at least 400 and a gate is configured,
\* and not at all when the status is below 400; a call that is refused,
\* misses the cache or loses the guard records nothing.
C24_RecordErrorAfterGuard ==
    [][ResponseReturns =>
          IF ProcessStep
          THEN /\ txs[out'.tx].locked
               /\ Count(out'.calls, "RecordError")
                     = (IF out'.status >= 400 /\ cfg.flowController THEN 1 ELSE 0)
               /\ Count(out'.calls, "RecordError") = 1 => out'.calls[1] = "RecordError"
          ELSE /\ Count(out'.calls, "RecordError") = 0
               /\ UNCHANGED txs
      ]_vars

\* a response with status 400 recorded one error, then was processed
C24_Witness ==
    /\ out.op = "HandleResponse" /\ Count(out.calls, "Close") = 1
    /\ out.status = 400
    /\ out.calls[1] = "RecordError" /\ Count(out.calls, "RecordError") = 1
    /\ out.err = "nil"

\* the step is a run of the eviction callback
EvictStep == evictor.pc = "callback" /\ evictor'.pc = "idle"

\* C25: the eviction callback, when it takes the guard of the evicted
\* transaction, calls the logging hook and the release and nothing else: no
\* RecordAttack, no RecordError, no log entry; it finalizes that transaction
\* and no other. When the guard is taken already it returns without touching
\* any transaction. It never changes the cache.
C25_EvictionOnlyReleases ==
    [][EvictStep =>
          LET t == evictor.t
          IN /\ out'.op = "evict"
             /\ cache' = cache
             /\ IF ~txs[t].locked
                THEN /\ out'.calls = <<"TryLock:ok", "ProcessLogging", "Close">>
                     /\ txs' = [txs EXCEPT ![t] = [@ EXCEPT !.locked = TRUE,
                                                            !.finalized = @ + 1]]
                ELSE /\ out'.calls = <<"TryLock:fail">>
                     /\ txs' = txs
      ]_vars

\* the callback released an expired transaction whose response never came
C25_Witness ==
    /\ out.op = "evict" /\ out.calls = <<"TryLock:ok", "ProcessLogging", "Close">>
    /\ \E t \in 1..Len(txs) :
          /\ txs[t].locked /\ txs[t].finalized = 1
          /\ \A id \in DOMAIN cache : cache[id].tx # t
    /\ \A w \in Workers : workers[w].pc = "idle"

\* ------------------------------------------- registry capacity and sweeps
\* the entries of the registry whose expiry is not after the instant t
ExpiredAt(t) == {x \in DOMAIN blockedIPs : ~(ExpiryOf(Recorder, x) > t)}

\* the entries of the registry with the earliest expiry
Earliest ==
    {x \in DOMAIN blockedIPs :
        \A y \in DOMAIN blockedIPs : ExpiryOf(Recorder, x) <= ExpiryOf(Recorder, y)}

\* the step is a RecordBlockedIP call for an IP without a record
NewBanStep == lastOp'.op = "ban" /\ lastOp'.ip \notin DOMAIN expiryItems

\* the step is a run of the background sweep
SweepStep == lastOp'.op = "sweep"

\* C26: after any sequence of RecordBlockedIP calls and background sweeps the
\* number of records in the ban registry never exceeds its capacity.
C26_WithinCapacity == Cardinality(DOMAIN blockedIPs) <= Capacity

\* a full registry that has just taken a new IP
C26_Witness ==
    /\ Cardinality(DOMAIN blockedIPs) = Capacity
    /\ lastOp.op = "ban" /\ ~lastOp.existed
    /\ Len(lastOp.expired) + Len(lastOp.forced) >= 1

\* C27: ensureCapacity, run by RecordBlockedIP for a new IP, removes nothing
\* when the registry is below capacity; at capacity it removes the expired
\* entries, and when there is none it removes exactly one entry, one with the
\* earliest expiry, which is then unexpired.
C27_EnsureCapacity ==
    [][NewBanStep =>
          LET removed == (DOMAIN blockedIPs) \ (DOMAIN blockedIPs')
              kept == (DOMAIN blockedIPs) \ removed
          IN /\ DOMAIN blockedIPs' = kept \cup {lastOp'.ip}
             /\ SeqToSet(expiryHeap') = DOMAIN blockedIPs'
             /\ DOMAIN expiryItems' = DOMAIN blockedIPs'
             /\ \A x \in kept : blockedIPs'[x] = blockedIPs[x]
             /\ IF Cardinality(DOMAIN blockedIPs) < Capacity
                THEN removed = {}
                ELSE IF ExpiredAt(now) # {}
                THEN removed = ExpiredAt(now)
                ELSE /\ Cardinality(removed) = 1
                     /\ removed \subseteq Earliest
                     /\ \A x \in removed : ExpiryOf(Recorder, x) > now
      ]_vars

\* a new IP came to a full registry holding an expired and an unexpired entry:
\* the expired one was discarded and the unexpired one stayed
C27_Witness ==
    /\ lastOp.op = "ban" /\ ~lastOp.existed
    /\ Len(lastOp.expired) = 1 /\ lastOp.forced = <<>>
    /\ Cardinality(DOMAIN blockedIPs) = Capacity
    /\ \E x \in DOMAIN blockedIPs : x # lastOp.ip /\ ExpiryOf(Recorder, x) > now

\* C28: in every state of the registry the heap array is min-ordered on expiry,
\* each entry's stored index is its position in the array, the record map, the
\* IP-to-entry map and the heap hold the same IPs, each once, and each heap
\* entry's expiry is its record's expiry.
C28_HeapConsistent ==
    /\ MinHeapOrdered(HeapValue)
    /\ DOMAIN expiryItems = DOMAIN blockedIPs
    /\ SeqToSet(expiryHeap) = DOMAIN blockedIPs
    /\ Len(expiryHeap) = Cardinality(DOMAIN blockedIPs)
    /\ \A i \in 1..Len(expiryHeap) : expiryItems[expiryHeap[i]].index = i - 1
    /\ \A x \in DOMAIN blockedIPs : expiryItems[x].expiresAt = blockedIPs[x].BlockedUntil

\* a new IP expiring before the one at the top was pushed and moved up
C28_Witness ==
    /\ lastOp.op = "ban" /\ ~lastOp.existed
    /\ Len(expiryHeap) = Capacity
    /\ expiryHeap[1] = lastOp.ip
    /\ expiryItems[expiryHeap[1]].expiresAt < expiryItems[expiryHeap[Capacity]].expiresAt

\* C29: one run of the sweep removes from the heap and from both maps every
\* entry whose expiry is not after the current time and no other entry; the
\* records that stay are unchanged.
C29_SweepRemovesExpired ==
    [][SweepStep =>
          LET kept == (DOMAIN blockedIPs) \ ExpiredAt(now)
          IN /\ DOMAIN blockedIPs' = kept
             /\ DOMAIN expiryItems' = kept
             /\ SeqToSet(expiryHeap') = kept
             /\ Len(expiryHeap') = Cardinality(kept)
             /\ SeqToSet(lastOp'.removed) = ExpiredAt(now)
             /\ \A x \in kept : blockedIPs'[x] = blockedIPs[x]
      ]_vars

\* a sweep removed an entry and kept another, which expires later
C29_Witness ==
    /\ lastOp.op = "sweep"
    /\ Len(lastOp.removed) >= 1
    /\ \E x \in DOMAIN blockedIPs : ExpiryOf(Recorder, x) > now

\* ------------------------------------------------- registry lock discipline
\* the task is at a statement that reads or writes the maps or the heap
Accessing(t) == tasks[t].pc \in {"record", "sweep", "list", "check"}

HoldsLock(t) == mu.writer = t \/ t \in mu.readers

\* every access to the maps and the heap is made under the registry's lock
AccessUnderLock == \A t \in Tasks : Accessing(t) => HoldsLock(t)

\* no map read of IsIPBlocked is concurrent with a body that writes the map
NoRacingRead ==
    \A r \in Tasks, w \in Tasks : ~(At(r, "check") /\ tasks[w].pc \in {"record", "sweep"})

\* C30: no task reads or writes the record map, the heap-entry map or the
\* heap without holding the registry's lock; no read of the record map by
\* IsIPBlocked is concurrent with a write by RecordBlockedIP, the capacity
\* eviction or the sweep.
C30_LockDiscipline == AccessUnderLock /\ NoRacingRead

\* the tasks other than those inside IsIPBlocked keep the discipline: writers
\* exclude each other and the readers of GetBlockedIPs
C30_LockedElsewhere ==
    /\ \A t \in Tasks : (Accessing(t) /\ ~At(t, "check")) => HoldsLock(t)
    /\ mu.writer # "none" => mu.readers = {}
    /\ Cardinality(Writing) <= 1

\* the process died of a map read concurrent with a map write
C30_Fatal == lastOp.op = "check" /\ lastOp.fatal
\* ---------------------------------------------------- the registry's two reads
\* C38: at every instant an IP is reported blocked by IsIPBlocked if and only
\* if its record is in the list GetBlockedIPs returns, the instant equal to
\* the record's expiry included
C38_ReadsAgree ==
    \A ip \in IPs :
        LET res == IsIPBlocked(Recorder, ip, now)
        IN res.blocked <=>
               /\ ip \in DOMAIN blockedIPs
               /\ blockedIPs[ip] \in GetBlockedIPs(Recorder, now)

\* away from the instant of expiry the two reads do agree
C38_AgreeOffExpiry ==
    \A ip \in DOMAIN blockedIPs :
        now # blockedIPs[ip].BlockedUntil =>
            (IsIPBlocked(Recorder, ip, now).blocked
                 <=> blockedIPs[ip] \in GetBlockedIPs(Recorder, now))

\* a record still in the map at the instant of its expiry
C38_AtExpiry ==
    \E ip \in DOMAIN blockedIPs : now = blockedIPs[ip].BlockedUntil
\* --------------------------------------------- the block and the log store
\* the step's request was blocked by the micro engine
MicroBlockStep == RequestStep /\ out'.match \in {"block", "block-nil-rule"}

\* C39: a request the micro engine blocks is always answered with the 403
\* deny, whatever the log store: also when the application has none and when
\* storing the log entry fails
C39_BlockAlwaysDenies ==
    [][MicroBlockStep => (out'.err = "deny" /\ out'.status = Status403)]_vars

\* with a log store the block is answered with the 403 deny
C39_BlockDeniesWithLogStore ==
    [][(MicroBlockStep /\ cfg.logStore) => (out'.err = "deny" /\ out'.status = Status403)]_vars

\* a block on an application without a log store ended in a panic
C39_BlockPanicked ==
    /\ out.op = "HandleRequest" /\ out.match \in {"block", "block-nil-rule"}
    /\ ~cfg.logStore /\ out.err = "panic"
\* ------------------------------------------- two requests under the same id
\* transactions t and u were opened under the same id, t first
SameIdPair(t, u) ==
    /\ t < u /\ u <= Len(txs)
    /\ txs[t].id = txs[u].id

\* the step deferred its transaction under an id whose cache entry holds an
\* earlier transaction, not finalized and with no response running for it
SecondDeferral ==
    /\ RequestStep
    /\ out'.tx # 0 /\ out'.tx = Len(txs')
    /\ LastCall(out'.calls) = "SetWithExpiration"
    /\ out'.id \in DOMAIN cache
    /\ txs[cache[out'.id].tx].finalized = 0

\* C33: when two request messages with the same caller-supplied id are both
\* deferred into the cache before any response or eviction for that id, both
\* transactions are finalized eventually
C33_BothEventuallyFinalized ==
    \A t \in 1..(MaxReq - 1) : \A u \in (t + 1)..MaxReq :
        [](SameIdPair(t, u)
              => <>(Len(txs) >= u /\ txs[t].finalized >= 1 /\ txs[u].finalized >= 1))

\* storing the second transaction under the key leaves the first one with
\* the cache, a handler or the eviction callback, which will finalize it
C33_FirstStillHeld ==
    [][SecondDeferral => (cache[out'.id].tx \in Held')]_vars

\* the second transaction itself is in the cache, to be finalized
C33_SecondHeld ==
    [][SecondDeferral => (cache'[out'.id].tx = out'.tx /\ out'.tx \in Held')]_vars

\* two transactions of one id, the first neither finalized nor referred to
C33_Orphaned ==
    \E t \in 1..Len(txs) : \E u \in 1..Len(txs) :
        /\ SameIdPair(t, u)
        /\ txs[t].finalized = 0 /\ t \notin Held
        /\ u \in Held
\* -------------------------------------------------------- batches and flushes
\* the step made a write call to the store
FlushStep == mongo'.call.made

\* the step was the loop's ticker case
TickStep == out'.op = "ticker"

\* the batch is flushed when it reaches the threshold and on a tick when it
\* is not empty, and an empty batch is not written
FlushedWhenDue ==
    /\ [](Len(batch) < BatchSize)
    /\ [][(FlushStep /\ out'.op = "receive") =>
             /\ Len(mongo'.call.batch) = BatchSize
             /\ SubSeq(mongo'.call.batch, 1, Len(batch)) = batch
         ]_vars
    /\ [][TickStep => (FlushStep <=> batch # <<>>)]_vars
    /\ [][(TickStep /\ FlushStep) => mongo'.call.batch = batch]_vars
    /\ [][FlushStep =>
             /\ mongo'.call.batch # <<>>
             /\ SeqToSet(mongo'.call.batch) \subseteq written'
         ]_vars

\* C31: in each drain loop the batch is flushed as soon as it reaches the
\* size threshold and on every tick at which it is not empty; the batch never
\* holds more than the threshold, an empty batch is never written to the
\* store, and after every flush the batch is empty
C31_FlushDiscipline ==
    /\ FlushedWhenDue
    /\ [][FlushStep => batch' = <<>>]_vars

\* C31, with the final flush apart: after every flush the batch is empty or
\* the loop has returned (batchWriteLoop's stop case flushes its batch and
\* returns without resetting it)
C31_FlushDisciplineUntilExit ==
    /\ FlushedWhenDue
    /\ [][FlushStep => (batch' = <<>> \/ (out'.op = "exit" /\ persister'.pc = "exited"))]_vars

\* a batch that reached the threshold on a receive was written and reset
C31_Witness ==
    /\ out.op = "receive"
    /\ mongo.call.made /\ Len(mongo.call.batch) = BatchSize
    /\ batch = <<>>

\* batchWriteLoop returned on its stop case with the batch it had flushed
C31_FinalBatchKept ==
    /\ persister.kind = "ip" /\ persister.pc = "exited"
    /\ mongo.call.made /\ batch # <<>> /\ mongo.call.batch = batch
\* ------------------------------------------------------------ failed flushes
\* the write call of the step returned an error
FailedFlushStep == mongo'.call.made /\ mongo'.call.err

\* C32: a flush that fails is only logged: the in-memory registry is as it
\* was and IsIPBlocked answers as before, the step returns nothing to
\* anybody, the failed batch is dropped and its records are not queued
\* again, and the loop keeps running unless the flush was its last; a push
\* on an open persister returns nil also after a flush has failed
C32_FailedFlushOnlyLogged ==
    /\ [][FailedFlushStep =>
             /\ UNCHANGED <<blockedIPs, expiryItems, expiryHeap, lastOp, granted>>
             /\ \A ip \in PushedIPs :
                    IsIPBlocked(Recorder', ip, now') = IsIPBlocked(Recorder, ip, now)
             /\ out' \in {LoopOut(op, batch) : op \in {"receive", "ticker", "exit"}}
                    \cup {LoopOut("receive", <<>>)}
             /\ inbox' = inbox \/ (inbox # <<>> /\ inbox' = Tail(inbox))
             /\ IF out'.op = "exit"
                THEN persister.closed /\ persister'.pc = "exited"
                ELSE batch' = <<>> /\ persister'.pc = "running"
         ]_vars
    /\ [][(PushStep /\ ~persister.closed /\ mongo.failed) =>
             /\ out'.ret = "nil"
             /\ mongo'.docs = mongo.docs
         ]_vars

\* a write of the running loop failed: the batch is gone and the loop runs on
C32_Witness ==
    /\ mongo.call.made /\ mongo.call.err
    /\ ~persister.closed /\ persister.pc = "running"
    /\ batch = <<>>
    /\ SeqToSet(mongo.call.batch) \cap SeqToSet(inbox) = {}

\* a ban was pushed and accepted after a write had failed
C32_PushAfterFailure ==
    /\ mongo.failed
    /\ out.op = "RecordBlockedIP" /\ out.ret = "nil" /\ ~out.dropped
\* ------------------------------------------------------ records at shutdown
\* the records that are pushed: bans, and log entries
BanRecords == {NewRecord(ip, reason, 0, 1) : ip \in PushedIPs, reason \in Reasons}

LogEntries == {LogEntry(n) : n \in 1..MaxPush}

\* the record waits in the inbox of an open persister of the kind
Waiting(kind, record) ==
    /\ persister.kind = kind /\ ~persister.closed
    /\ record \in SeqToSet(inbox)

\* the record was handed to the flush function
Flushed(kind, record) == persister.kind = kind /\ record \in written

\* every log entry accepted by the log store before Close is flushed
C34_LogsEventuallyFlushed ==
    \A record \in LogEntries : [](Waiting("log", record) => <>Flushed("log", record))

\* C34: every record a persister accepted into its inbox before Close is
\* eventually passed to the flush function, by the ban persister and by the
\* log store: shutdown discards no record that waits in the inbox
C34_AcceptedEventuallyFlushed ==
    /\ C34_LogsEventuallyFlushed
    /\ \A record \in BanRecords : [](Waiting("ip", record) => <>Flushed("ip", record))

\* batchWriteLoop has returned and a ban it never flushed is in the queue
C34_LeftInQueue ==
    /\ persister.kind = "ip" /\ persister.pc = "exited"
    /\ \E i \in 1..Len(inbox) : inbox[i] \notin written
\* --------------------------------------------------- what the ban loop writes
\* C35: the loop of the ban persister only flushes records that
\* RecordBlockedIP pushed: however Close is scheduled against the loop's
\* select, no zero-valued record received from the closed queue is appended
\* to a batch or written to the store
C35_OnlyPushedRecords ==
    persister.kind = "ip" =>
        /\ SeqToSet(batch) \cup written \subseteq BanRecords
        /\ \A i \in 1..Len(mongo.call.batch) : mongo.call.batch[i] # ZeroRecord
        /\ ZeroRecord.IP \notin DOMAIN mongo.docs

\* while the queue is open the loop holds and writes pushed records only
C35_OnlyPushedWhileOpen ==
    (persister.kind = "ip" /\ ~persister.closed) =>
        /\ SeqToSet(batch) \cup written \subseteq BanRecords
        /\ ZeroRecord.IP \notin DOMAIN mongo.docs

\* a zero record was written: the collection has a document for the empty ip
C35_PhantomWritten ==
    /\ persister.kind = "ip" /\ persister.closed
    /\ ZeroRecord \in written
    /\ ZeroRecord.IP \in DOMAIN mongo.docs
\* ------------------------------------------------ the store and the registry
\* nothing waits in the inbox or in the batch
Drained == inbox = <<>> /\ batch = <<>>

\* the persister is open, no record was dropped at a full inbox and no write
\* call failed
Lossless == ~persister.closed /\ ~mongo.dropped /\ ~mongo.failed

\* the document of the ip carries the reason and expiry of its latest ban
UpToDate(ip) ==
    /\ ip \in DOMAIN mongo.docs
    /\ mongo.docs[ip].Reason = granted[ip].reason
    /\ mongo.docs[ip].BlockedUntil = granted[ip].until

\* C40: while the persister is open, when no record was dropped and no flush
\* failed, once inbox and batch have drained the store's document of each ip carries the reason and
\* expiry of the most recent RecordBlockedIP for it, also when the ip was
\* banned several times within one batch
C40_StoreFollowsRegistry ==
    (persister.kind = "ip" /\ Lossless /\ Drained) =>
        \A ip \in DOMAIN granted : UpToDate(ip)

\* the same, when no write call carried two records of one ip
C40_StoreFollowsAcrossBatches ==
    (persister.kind = "ip" /\ Lossless /\ Drained /\ ~mongo.twice) =>
        \A ip \in DOMAIN granted : UpToDate(ip)

\* everything was written without loss, and a document holds an older ban
C40_StaleDocument ==
    /\ persister.kind = "ip" /\ Lossless /\ Drained
    /\ \E ip \in DOMAIN granted :
          /\ ip \in DOMAIN mongo.docs
          /\ mongo.docs[ip].Reason # granted[ip].reason
\* ----------------------------------------------------- one loop, one flag
\* the processLogs goroutines that have not finished: in their loop, or
\* returned from it with the deferred function still to run
LoopsAlive == {i \in 1..Len(mls.loops) : mls.loops[i].pc # "exited"}

\* C37: at most one processLogs loop runs at any time, and processStarted is
\* true exactly when one does (a loop that has returned and not yet run its
\* deferred function counts either way)
C37_OneLoopFlagged ==
    /\ Cardinality(LoopsRunning) <= 1
    /\ LoopsRunning # {} => mls.processStarted
    /\ mls.processStarted => LoopsAlive # {}

\* until Close is called the flag and the loop go together
C37_OneLoopFlaggedUntilClose ==
    ~mls.closed =>
        /\ Cardinality(LoopsRunning) <= 1
        /\ mls.processStarted <=> LoopsRunning # {}

\* Start never sets the flag without starting a loop
C37_FlagNeedsLoop == mls.processStarted => LoopsAlive # {}

\* two processLogs loops run at once
C37_TwoLoops == Cardinality(LoopsRunning) = 2

\* a loop runs while processStarted is false
C37_LoopUnflagged == LoopsRunning # {} /\ ~mls.processStarted

\* -------------------------------------------------- pushes and Close, closed
\* the step was a Close of the persister
CloseStep == out'.op = "Close"

\* C36: a push after Close is harmless and Close may be called again: neither
\* RecordBlockedIP, Store nor Close ever crashes its caller
C36_NeverCrashes ==
    [][(PushStep \/ CloseStep) => out'.ret = "nil"]_vars

\* on an open persister neither a push nor Close crashes
C36_NeverCrashesWhileOpen ==
    [][((PushStep \/ CloseStep) /\ ~persister.closed) => out'.ret = "nil"]_vars

\* Close of the log store never crashes its caller, however it is interleaved
\* with Start
C36_LogStoreCloseNeverCrashes ==
    [][out'.op = "Close" => out'.ret = "nil"]_vars

\* a push on a closed persister panicked
C36_PushPanicked ==
    /\ persister.closed
    /\ out.op \in {"RecordBlockedIP", "Store"} /\ out.ret = "panic"

\* a second Close of the ban persister panicked
C36_ClosePanicked ==
    /\ persister.kind = "ip" /\ persister.closed
    /\ out = Called("Close", "panic")
====
